---------------------------- MODULE Spec2Model ----------------------------
(***************************************************************************)
(* Model of the resilient request layer of the Shopline SDK:               *)
(*   - TokenManager (token_manager.go): singleflight token refresh,        *)
(*     first-call load from the TokenStore, SetInitialToken and            *)
(*     InvalidateToken;                                                    *)
(*   - CircuitBreaker (circuit_breaker): closed / open / half-open.        *)
(*                                                                         *)
(* Every field of TokenManager and CircuitBreaker is read and written      *)
(* under the object's mutex, so one action is one critical section (from   *)
(* Lock to Unlock) or one call made outside the lock (store.Get,           *)
(* store.Set, the refresh call, close(ch), the select).                    *)
(*                                                                         *)
(* Time is counted in units of the default refresh buffer (5 minutes).     *)
(***************************************************************************)
EXTENDS Integers, Sequences, FiniteSets, TLC

\* ------------------------------------------------------------------ bounds
NumCallers == 2        \* goroutines calling GetToken / using the breaker
MaxTime == 1           \* the clock runs from 0 to MaxTime
MaxAdminOps == 1       \* SetInitialToken / InvalidateToken calls in a run
MaxThreshold == 2      \* breaker thresholds 1..MaxThreshold
MaxCooldown == 1       \* breaker cooldowns 0..MaxCooldown
MaxRetries == 1        \* c.maxRetries in 0..MaxRetries
MaxHeaderLen == 3      \* Retry-After header values of up to MaxHeaderLen characters

\* --------------------------------------------------------- program constants
defaultRefreshBuffer == 1      \* 5 * time.Minute, the unit of time
TenHours == 120                \* 10 * time.Hour, in units of 5 minutes
ZeroTime == -1000              \* time.Time{}: the zero value of lastFailTime
Second == 1000                 \* time.Second, in ticks of time.Duration: the tick is
                               \* scaled from 1ns to 1ms, all arithmetic is kept
maxBackoff == 30 * Second
ClockUnit == 300 * Second      \* one unit of the clock (5 minutes) as a duration
maxResponseBodySize == 10      \* 10 * 1024 * 1024 bytes: body sizes are counted in MiB

Callers == 1..NumCallers

VARIABLES
    \* TokenManager fields
    token,          \* tm.token: NoToken (nil) or a ManagedToken
    refreshCh,      \* tm.refreshCh: 0 (nil) or the index of a channel in chans
    initialized,    \* tm.initialized
    refreshBuffer,  \* tm.refreshBuffer
    hasStore,       \* tm.store != nil
    store,          \* what the TokenStore holds under storeKey()
    \* the Go runtime
    chans,          \* chans[i]: how many times channel i has been closed
    now,            \* time.Now()
    \* one GetToken call per goroutine: its position and its locals
    gr,
    \* the goroutine calling SetInitialToken / InvalidateToken
    admin,
    \* how many times the refresh call (app.RefreshAccessToken) was made
    refreshCount,
    \* whether some GetToken call began after a refresh call had been made or
    \* another call had returned
    lateCall,
    \* CircuitBreaker fields
    threshold, cooldown, state, failures, lastFailTime, probing,
    \* the callers of the breaker, the failures recorded in a row, and whether
    \* a success was ever recorded
    cb, streak, succeeded,
    \* when the last failure of a half-open probe was recorded, ZeroTime if
    \* none was or a success was recorded since
    probeFailedAt,
    \* when the breaker last went from closed or half-open to open, ZeroTime
    \* if it never did or a success was recorded since
    openedAt,
    \* Client fields: c.maxRetries and c.cb != nil
    maxRetries, hasCb,
    \* one Do call per goroutine: its position and its locals
    do,
    \* one call of backoffDuration or parseRetryAfter: its arguments and result
    fn

tmVars == <<token, refreshCh, initialized, refreshBuffer, hasStore, store,
            chans, gr, admin, refreshCount, lateCall>>
cbVars == <<threshold, cooldown, state, failures, lastFailTime, probing,
            cb, streak, succeeded, probeFailedAt, openedAt>>
doVars == <<maxRetries, hasCb, do, fn>>
vars == <<tmVars, cbVars, doVars, now>>

\* ------------------------------------------------------------ ManagedToken
NoToken == [at |-> <<"nil", 0>>, exp |-> 0]
NoAccess == <<"", 0>>
NilErr == <<"nil", 0>>
ErrCancelled == <<"context cancelled while waiting for token refresh", 0>>

ManagedToken(at, exp) == [at |-> at, exp |-> exp]

IsExpired(t) == t = NoToken \/ now > t.exp

IsExpiring(t, buffer) == t = NoToken \/ now + buffer > t.exp

\* the expiry the refresh response carries, as a lifetime from now: one refresh
\* buffer, so that the token is inside the buffer after the next tick of the
\* clock, or the platform's ten hours
Lifetimes == {defaultRefreshBuffer, TenHours}

\* ------------------------------------------------------- goroutine records
\* refreshed: the call has made the refresh call; newToken and err are then
\* what doRefresh returned to it. didLoad: the call ran the first-call load.
\* getErr, setErr: store.Get or store.Set returned an error to the call.
\* woken: the call has waited for a refresh and was woken by its channel.
IdleCall == [pc |-> "idle", ch |-> 0, newToken |-> NoToken, err |-> NilErr,
             loaded |-> NoToken, ctxDone |-> FALSE, wake |-> "none",
             didLoad |-> FALSE, refreshed |-> FALSE,
             getErr |-> FALSE, setErr |-> FALSE, woken |-> FALSE,
             tok |-> NoAccess, reterr |-> NilErr]

Return(g, tok, err) ==
    gr' = [gr EXCEPT ![g] = [@ EXCEPT !.pc = "done", !.tok = tok, !.reterr = err,
                                      !.ch = 0, !.wake = "none"]]

Goto(g, label) == gr' = [gr EXCEPT ![g].pc = label]

\* ------------------------------------------------------------ TokenManager
\* NewTokenManager: the fields after construction. The buffer is the default:
\* WithRefreshBuffer only moves the instant from which a token counts as
\* expiring, which the token lifetimes of the model vary already.
NewTokenManager ==
    /\ token = NoToken
    /\ refreshCh = 0
    /\ initialized = FALSE
    /\ refreshBuffer = defaultRefreshBuffer
    /\ hasStore \in BOOLEAN

\* mutant: the slow path does not look at tm.refreshCh and always refreshes
FastOrSlowPathNoWait(g) ==
    IF token # NoToken /\ ~IsExpiring(token, refreshBuffer)
    THEN /\ Return(g, token.at, NilErr)
         /\ UNCHANGED <<refreshCh, chans>>
    ELSE /\ chans' = Append(chans, 0)
         /\ refreshCh' = Len(chans) + 1
         /\ Goto(g, "doRefresh")

\* GetToken lines 104-127, run with tm.mu held: the fast path, or wait for the
\* refresh in flight, or become the refresher
FastOrSlowPath(g) ==
    IF token # NoToken /\ ~IsExpiring(token, refreshBuffer)
    THEN /\ Return(g, token.at, NilErr)
         /\ UNCHANGED <<refreshCh, chans>>
    ELSE IF refreshCh # 0
    THEN /\ gr' = [gr EXCEPT ![g] = [@ EXCEPT !.pc = "select", !.ch = refreshCh,
                                              !.wake = "none"]]
         /\ UNCHANGED <<refreshCh, chans>>
    ELSE /\ chans' = Append(chans, 0)
         /\ refreshCh' = Len(chans) + 1
         /\ Goto(g, "doRefresh")

\* a goroutine calls GetToken
GetTokenCall(g) ==
    /\ gr[g].pc = "idle"
    /\ Goto(g, "enter")
    /\ lateCall' = (lateCall \/ refreshCount > 0 \/ \E h \in Callers : gr[h].pc = "done")
    /\ UNCHANGED <<token, refreshCh, initialized, refreshBuffer, hasStore, store,
                   chans, admin, refreshCount, now>>
    /\ UNCHANGED <<cbVars, doVars>>

\* GetToken lines 90-127: the call (or the recursive call of line 119) takes the
\* lock; the first call ever marks the manager initialized and leaves the lock
\* to load from the store
GetTokenLock(g) ==
    /\ gr[g].pc = "enter"
    /\ initialized' = TRUE
    /\ IF ~initialized /\ hasStore
       THEN /\ gr' = [gr EXCEPT ![g] = [@ EXCEPT !.pc = "load", !.didLoad = TRUE]]
            /\ UNCHANGED <<refreshCh, chans>>
       ELSE FastOrSlowPath(g)
    /\ UNCHANGED <<token, refreshBuffer, lateCall, hasStore, store, admin, refreshCount, now>>
    /\ UNCHANGED <<cbVars, doVars>>

\* loadFromStore lines 222-232: store.Get; an error, no token or an expired
\* token leave the cache alone
LoadFromStoreGet(g) ==
    /\ gr[g].pc = "load"
    /\ \E getErr \in BOOLEAN :
         IF getErr \/ store = NoToken \/ IsExpired(store)
         THEN gr' = [gr EXCEPT ![g] = [@ EXCEPT !.pc = "relock", !.getErr = getErr]]
         ELSE gr' = [gr EXCEPT ![g] = [@ EXCEPT !.pc = "loadInstall", !.loaded = store]]
    /\ UNCHANGED <<token, refreshCh, initialized, refreshBuffer, lateCall, hasStore, store,
                   chans, admin, refreshCount, now>>
    /\ UNCHANGED <<cbVars, doVars>>

\* loadFromStore lines 234-236: tm.token = token
LoadFromStoreInstall(g) ==
    /\ gr[g].pc = "loadInstall"
    /\ token' = gr[g].loaded
    /\ gr' = [gr EXCEPT ![g] = [@ EXCEPT !.pc = "relock", !.loaded = NoToken]]
    /\ UNCHANGED <<refreshCh, initialized, refreshBuffer, lateCall, hasStore, store,
                   chans, admin, refreshCount, now>>
    /\ UNCHANGED <<cbVars, doVars>>

\* GetToken lines 100-127: back under the lock after the load
GetTokenRelock(g) ==
    /\ gr[g].pc = "relock"
    /\ FastOrSlowPath(g)
    /\ UNCHANGED <<token, initialized, refreshBuffer, lateCall, hasStore, store, admin,
                   refreshCount, now>>
    /\ UNCHANGED <<cbVars, doVars>>

\* mutant: a waiter woken by the channel takes the refresh to have failed and
\* returns an error instead of calling GetToken again
AfterSelectNoRetry(g, case) ==
    IF case = "ch"
    THEN Return(g, NoAccess, <<"token refresh failed", 0>>)
    ELSE gr' = [gr EXCEPT ![g] = [@ EXCEPT !.pc = "done", !.tok = NoAccess,
                                          !.reterr = ErrCancelled, !.ch = 0]]

\* mutant: the select has no ctx.Done() case, the waiter goes on to retry
AfterSelectIgnoreCtx(g, case) ==
    gr' = [gr EXCEPT ![g] = [@ EXCEPT !.pc = "enter", !.ch = 0, !.wake = "none"]]

\* mutant: a waiter woken by the channel takes the refresh to have succeeded
\* and returns the cached token without the validity check
AfterSelectAssumeSuccess(g, case) ==
    IF case = "ch"
    THEN gr' = [gr EXCEPT ![g] = [@ EXCEPT !.pc = "done", !.tok = token.at,
                                          !.reterr = NilErr, !.ch = 0,
                                          !.wake = "none", !.woken = TRUE]]
    ELSE gr' = [gr EXCEPT ![g] = [@ EXCEPT !.pc = "done", !.tok = NoAccess,
                                          !.reterr = ErrCancelled, !.ch = 0]]

\* what a waiter does once its select has chosen a case (lines 117-121)
AfterSelect(g, case) ==
    IF case = "ch"
    THEN gr' = [gr EXCEPT ![g] = [@ EXCEPT !.pc = "enter", !.ch = 0, !.wake = "none",
                                          !.woken = TRUE]]
    ELSE gr' = [gr EXCEPT ![g] = [@ EXCEPT !.pc = "done", !.tok = NoAccess,
                                          !.reterr = ErrCancelled, !.ch = 0]]

\* the cases of the select of line 116 that can proceed
ReadyCases(g) ==
    {c \in {"ch"} : chans[gr[g].ch] > 0} \cup {c \in {"ctx"} : gr[g].ctxDone}

\* GetToken lines 116-122: the select; with no case ready the goroutine parks,
\* with both ready Go picks one at random
GetTokenSelect(g) ==
    /\ gr[g].pc = "select"
    /\ IF ReadyCases(g) = {}
       THEN Goto(g, "parked")
       ELSE \E case \in ReadyCases(g) : AfterSelect(g, case)
    /\ UNCHANGED <<token, refreshCh, initialized, refreshBuffer, lateCall, hasStore, store,
                   chans, admin, refreshCount, now>>
    /\ UNCHANGED <<cbVars, doVars>>

\* a parked goroutine runs again with the case that woke it
GetTokenWake(g) ==
    /\ gr[g].pc = "parked"
    /\ gr[g].wake # "none"
    /\ AfterSelect(g, gr[g].wake)
    /\ UNCHANGED <<token, refreshCh, initialized, refreshBuffer, lateCall, hasStore, store,
                   chans, admin, refreshCount, now>>
    /\ UNCHANGED <<cbVars, doVars>>

\* the token doRefresh builds from a successful response (lines 193-206); an
\* expiry that does not parse becomes now + 10h
RefreshedToken(n, parses, life) ==
    ManagedToken(<<"refreshed", n>>, IF parses THEN now + life ELSE now + TenHours)

\* doRefresh lines 188-206: the refresh call, made outside the lock. A context
\* that is already done makes the HTTP request fail.
DoRefreshCall(g) ==
    /\ gr[g].pc = "doRefresh"
    /\ \E ok \in BOOLEAN, parses \in BOOLEAN, life \in Lifetimes :
         LET n == refreshCount + 1
             t == RefreshedToken(n, parses, life) IN
         IF ok /\ ~gr[g].ctxDone
         THEN gr' = [gr EXCEPT ![g] = [@ EXCEPT !.newToken = t, !.err = NilErr,
                        !.refreshed = TRUE,
                        !.pc = IF hasStore THEN "persist" ELSE "commit"]]
         ELSE gr' = [gr EXCEPT ![g] = [@ EXCEPT !.newToken = NoToken,
                        !.err = <<"token refresh failed", n>>,
                        !.refreshed = TRUE, !.pc = "commit"]]
    /\ refreshCount' = refreshCount + 1
    /\ UNCHANGED <<token, refreshCh, initialized, refreshBuffer, lateCall, hasStore, store,
                   chans, admin, now>>
    /\ UNCHANGED <<cbVars, doVars>>

\* mutant: a store.Set error is returned by doRefresh as a refresh failure
DoRefreshPersistAborts(g) ==
    /\ gr[g].pc = "persist"
    /\ \E setErr \in BOOLEAN :
         /\ store' = IF setErr THEN store ELSE gr[g].newToken
         /\ gr' = [gr EXCEPT ![g] = [@ EXCEPT !.pc = "commit", !.setErr = setErr,
                      !.newToken = IF setErr THEN NoToken ELSE @,
                      !.err = IF setErr THEN <<"token refresh failed", refreshCount>>
                              ELSE @]]
    /\ UNCHANGED <<token, refreshCh, initialized, refreshBuffer, lateCall, hasStore,
                   chans, admin, refreshCount, now>>
    /\ UNCHANGED <<cbVars, doVars>>

\* doRefresh lines 208-217: store.Set, whose error is only logged
DoRefreshPersist(g) ==
    /\ gr[g].pc = "persist"
    /\ \E setErr \in BOOLEAN :
         /\ store' = IF setErr THEN store ELSE gr[g].newToken
         /\ gr' = [gr EXCEPT ![g] = [@ EXCEPT !.pc = "commit", !.setErr = setErr]]
    /\ UNCHANGED <<token, refreshCh, initialized, refreshBuffer, lateCall, hasStore,
                   chans, admin, refreshCount, now>>
    /\ UNCHANGED <<cbVars, doVars>>

\* mutant: the refresher clears the marker but does not install the new token
GetTokenCommitNoInstall(g) ==
    /\ gr[g].pc = "commit"
    /\ refreshCh' = 0
    /\ gr' = [gr EXCEPT ![g] = [@ EXCEPT !.pc = "close", !.ch = refreshCh]]
    /\ UNCHANGED <<token, initialized, refreshBuffer, lateCall, hasStore, store, chans, admin,
                   refreshCount, now>>
    /\ UNCHANGED <<cbVars, doVars>>

\* mutant: a failed refresh drops the cached token
GetTokenCommitDropsToken(g) ==
    /\ gr[g].pc = "commit"
    /\ token' = IF gr[g].err = NilErr THEN gr[g].newToken ELSE NoToken
    /\ refreshCh' = 0
    /\ gr' = [gr EXCEPT ![g] = [@ EXCEPT !.pc = "close", !.ch = refreshCh]]
    /\ UNCHANGED <<initialized, refreshBuffer, lateCall, hasStore, store, chans, admin,
                   refreshCount, now>>
    /\ UNCHANGED <<cbVars, doVars>>

\* GetToken lines 133-139: install the new token on success, take the channel
\* out of the manager
GetTokenCommit(g) ==
    /\ gr[g].pc = "commit"
    /\ token' = IF gr[g].err = NilErr THEN gr[g].newToken ELSE token
    /\ refreshCh' = 0
    /\ gr' = [gr EXCEPT ![g] = [@ EXCEPT !.pc = "close", !.ch = refreshCh]]
    /\ UNCHANGED <<initialized, refreshBuffer, lateCall, hasStore, store, chans, admin,
                   refreshCount, now>>
    /\ UNCHANGED <<cbVars, doVars>>

\* the goroutines parked on channel c whose select has not chosen yet
ParkedOn(c) == {h \in Callers : gr[h].pc = "parked" /\ gr[h].ch = c /\ gr[h].wake = "none"}

\* mutant: a failed refresh returns its error before close(ch)
GetTokenCloseOnSuccessOnly(g) ==
    /\ gr[g].pc = "close"
    /\ chans' = IF gr[g].err = NilErr THEN [chans EXCEPT ![gr[g].ch] = @ + 1] ELSE chans
    /\ gr' = [h \in Callers |->
                IF h = g
                THEN [gr[g] EXCEPT !.pc = "done", !.ch = 0,
                         !.tok = IF gr[g].err = NilErr THEN gr[g].newToken.at ELSE NoAccess,
                         !.reterr = gr[g].err]
                ELSE IF gr[g].err = NilErr /\ gr[h].pc = "parked"
                        /\ gr[h].ch = gr[g].ch /\ gr[h].wake = "none"
                THEN [gr[h] EXCEPT !.wake = "ch"]
                ELSE gr[h]]
    /\ UNCHANGED <<token, refreshCh, initialized, refreshBuffer, lateCall, hasStore, store,
                   admin, refreshCount, now>>
    /\ UNCHANGED <<cbVars, doVars>>

\* GetToken lines 141-147: close(ch) wakes every goroutine parked on it, then
\* the refresher returns its own result
GetTokenClose(g) ==
    /\ gr[g].pc = "close"
    /\ chans' = [chans EXCEPT ![gr[g].ch] = @ + 1]
    /\ gr' = [h \in Callers |->
                IF h = g
                THEN [gr[g] EXCEPT !.pc = "done", !.ch = 0,
                         !.tok = IF gr[g].err = NilErr THEN gr[g].newToken.at ELSE NoAccess,
                         !.reterr = gr[g].err]
                ELSE IF h \in ParkedOn(gr[g].ch)
                THEN [gr[h] EXCEPT !.wake = "ch"]
                ELSE gr[h]]
    /\ UNCHANGED <<token, refreshCh, initialized, refreshBuffer, lateCall, hasStore, store,
                   admin, refreshCount, now>>
    /\ UNCHANGED <<cbVars, doVars>>

\* the caller's context ends (cancel or deadline); a goroutine parked in the
\* select of line 116 is woken with the ctx.Done() case. GetToken reads the
\* context in the select and in the refresh call only, so a context that ends
\* earlier in the call is one that ends as the call reaches either.
CtxDone(g) ==
    /\ gr[g].pc \in {"select", "parked", "doRefresh"}
    /\ ~gr[g].ctxDone
    /\ gr' = [gr EXCEPT ![g] = [@ EXCEPT !.ctxDone = TRUE,
                 !.wake = IF gr[g].pc = "parked" /\ gr[g].wake = "none"
                          THEN "ctx" ELSE @]]
    /\ UNCHANGED <<token, refreshCh, initialized, refreshBuffer, lateCall, hasStore, store,
                   chans, admin, refreshCount, now>>
    /\ UNCHANGED <<cbVars, doVars>>

\* mutant: SetInitialToken does not mark the manager initialized
SetInitialTokenLockNoInit ==
    /\ admin.pc = "idle"
    /\ admin.ops < MaxAdminOps
    /\ \E exp \in {0, TenHours} :
         LET t == ManagedToken(<<"seed", admin.ops + 1>>, exp) IN
         /\ token' = t
         /\ admin' = [pc |-> IF hasStore THEN "setPersist" ELSE "idle",
                      ops |-> admin.ops + 1, tok |-> t, err |-> FALSE]
    /\ UNCHANGED <<refreshCh, initialized, refreshBuffer, lateCall, hasStore, store,
                   chans, gr, refreshCount, now>>
    /\ UNCHANGED <<cbVars, doVars>>

\* SetInitialToken lines 153-162
SetInitialTokenLock ==
    /\ admin.pc = "idle"
    /\ admin.ops < MaxAdminOps
    /\ \E exp \in {0, TenHours} :
         LET t == ManagedToken(<<"seed", admin.ops + 1>>, exp) IN
         /\ token' = t
         /\ admin' = [pc |-> IF hasStore THEN "setPersist" ELSE "idle",
                      ops |-> admin.ops + 1, tok |-> t, err |-> FALSE]
    /\ initialized' = TRUE
    /\ UNCHANGED <<refreshCh, refreshBuffer, lateCall, hasStore, store, chans, gr,
                   refreshCount, now>>
    /\ UNCHANGED <<cbVars, doVars>>

\* mutant: a failed store.Set takes the seeded token out of the cache again
SetInitialTokenPersistRollsBack ==
    /\ admin.pc = "setPersist"
    /\ \E setErr \in BOOLEAN :
         /\ store' = IF setErr THEN store ELSE admin.tok
         /\ token' = IF setErr THEN NoToken ELSE token
         /\ admin' = [admin EXCEPT !.pc = "idle", !.err = setErr]
    /\ UNCHANGED <<refreshCh, initialized, refreshBuffer, lateCall, hasStore,
                   chans, gr, refreshCount, now>>
    /\ UNCHANGED <<cbVars, doVars>>

\* SetInitialToken lines 164-170: store.Set, whose error is returned
SetInitialTokenPersist ==
    /\ admin.pc = "setPersist"
    /\ \E setErr \in BOOLEAN :
         /\ store' = IF setErr THEN store ELSE admin.tok
         /\ admin' = [admin EXCEPT !.pc = "idle", !.err = setErr]
    /\ UNCHANGED <<token, refreshCh, initialized, refreshBuffer, lateCall, hasStore,
                   chans, gr, refreshCount, now>>
    /\ UNCHANGED <<cbVars, doVars>>

\* InvalidateToken lines 176-178
InvalidateTokenLock ==
    /\ admin.pc = "idle"
    /\ admin.ops < MaxAdminOps
    /\ token' = NoToken
    /\ admin' = [pc |-> IF hasStore THEN "invDelete" ELSE "idle",
                 ops |-> admin.ops + 1, tok |-> NoToken, err |-> FALSE]
    /\ UNCHANGED <<refreshCh, initialized, refreshBuffer, lateCall, hasStore, store,
                   chans, gr, refreshCount, now>>
    /\ UNCHANGED <<cbVars, doVars>>

\* InvalidateToken lines 180-183: store.Delete, whose error is returned
InvalidateTokenDelete ==
    /\ admin.pc = "invDelete"
    /\ \E delErr \in BOOLEAN :
         /\ store' = IF delErr THEN store ELSE NoToken
         /\ admin' = [admin EXCEPT !.pc = "idle", !.err = delErr]
    /\ UNCHANGED <<token, refreshCh, initialized, refreshBuffer, lateCall, hasStore,
                   chans, gr, refreshCount, now>>
    /\ UNCHANGED <<cbVars, doVars>>

\* the clock advances
Tick ==
    /\ now < MaxTime
    /\ now' = now + 1
    /\ UNCHANGED <<tmVars, cbVars, doVars>>


\* ---------------------------------------------------------- CircuitBreaker
\* newCircuitBreaker: closed, no failures, lastFailTime the zero time
newCircuitBreaker ==
    /\ threshold \in 1..MaxThreshold
    /\ cooldown \in 0..MaxCooldown
    /\ state = "closed"
    /\ failures = 0
    /\ lastFailTime = ZeroTime
    /\ probing = FALSE

\* time.Since(t)
Since(t) == now - t

IdleCaller == [pc |-> "idle", res |-> "none", probe |-> FALSE]

\* the caller's side of Allow: nil lets the request go out, an error ends the call
Admit(c, asProbe) == cb' = [cb EXCEPT ![c] = [pc |-> "inflight", res |-> "ok", probe |-> asProbe]]

Reject(c) == cb' = [cb EXCEPT ![c] = [pc |-> "idle", res |-> "rejected", probe |-> FALSE]]

\* mutant: open lets a probe through without waiting for the cooldown
AllowOpenNoCooldown(c) ==
    /\ state' = "half-open"
    /\ probing' = TRUE
    /\ cb' = [cb EXCEPT ![c] = [pc |-> "inflight", res |-> "ok", probe |-> TRUE]]

\* mutant: the cooldown must be exceeded, not reached
AllowOpenStrict(c) ==
    IF now - lastFailTime > cooldown
    THEN /\ state' = "half-open"
         /\ probing' = TRUE
         /\ cb' = [cb EXCEPT ![c] = [pc |-> "inflight", res |-> "ok", probe |-> TRUE]]
    ELSE /\ cb' = [cb EXCEPT ![c] = [pc |-> "idle", res |-> "rejected", probe |-> FALSE]]
         /\ UNCHANGED <<state, probing>>

\* mutant: the move to half-open does not mark the probe
AllowOpenNoMark(c) ==
    IF Since(lastFailTime) >= cooldown
    THEN /\ state' = "half-open"
         /\ probing' = FALSE
         /\ Admit(c, TRUE)
    ELSE /\ Reject(c)
         /\ UNCHANGED <<state, probing>>

\* Allow lines 61-69: open moves to half-open once the cooldown has elapsed
AllowOpen(c) ==
    IF Since(lastFailTime) >= cooldown
    THEN /\ state' = "half-open"
         /\ probing' = TRUE
         /\ Admit(c, TRUE)
    ELSE /\ Reject(c)
         /\ UNCHANGED <<state, probing>>

\* Allow lines 71-77: half-open admits one probe
AllowHalfOpen(c) ==
    IF probing
    THEN /\ Reject(c)
         /\ UNCHANGED <<state, probing>>
    ELSE /\ probing' = TRUE
         /\ Admit(c, TRUE)
         /\ UNCHANGED state

\* CircuitBreaker.Allow, from Lock to Unlock
AllowLocked(c) ==
    /\ CASE state = "closed" -> Admit(c, FALSE) /\ UNCHANGED <<state, probing>>
         [] state = "open" -> AllowOpen(c)
         [] state = "half-open" -> AllowHalfOpen(c)
    /\ UNCHANGED <<threshold, cooldown, failures, lastFailTime, streak, succeeded,
                   probeFailedAt, openedAt>>

\* a caller of the breaker calls Allow
Allow(c) ==
    /\ cb[c].pc = "idle"
    /\ AllowLocked(c)
    /\ UNCHANGED <<tmVars, doVars, now>>

\* mutant: RecordSuccess closes the breaker but keeps the failure counter
RecordSuccessKeepFailures(c) ==
    /\ probing' = FALSE
    /\ state' = "closed"
    /\ cb' = [cb EXCEPT ![c] = [pc |-> "idle", res |-> "none", probe |-> FALSE]]
    /\ streak' = 0
    /\ succeeded' = TRUE
    /\ probeFailedAt' = ZeroTime
    /\ openedAt' = ZeroTime
    /\ UNCHANGED <<threshold, cooldown, failures, lastFailTime>>

\* CircuitBreaker.RecordSuccess, from Lock to Unlock
RecordSuccessLocked(c) ==
    /\ failures' = 0
    /\ probing' = FALSE
    /\ state' = "closed"
    /\ cb' = [cb EXCEPT ![c] = IdleCaller]
    /\ streak' = 0
    /\ succeeded' = TRUE
    /\ probeFailedAt' = ZeroTime
    /\ openedAt' = ZeroTime
    /\ UNCHANGED <<threshold, cooldown, lastFailTime>>

\* CircuitBreaker.RecordSuccess, called by a caller Allow let through
RecordSuccess(c) ==
    /\ cb[c].pc = "inflight"
    /\ RecordSuccessLocked(c)
    /\ UNCHANGED <<tmVars, doVars, now>>

\* mutant: the breaker opens one failure late (> for >=)
FailureSwitchOffByOne ==
    CASE state = "closed" ->
           /\ failures' = failures + 1
           /\ state' = IF failures + 1 > threshold THEN "open" ELSE state
      [] state = "half-open" ->
           /\ state' = "open"
           /\ UNCHANGED failures
      [] OTHER -> UNCHANGED <<state, failures>>

\* mutant: failures are counted while the breaker is open too
FailureSwitchCountsOpen ==
    CASE state = "closed" ->
           /\ failures' = failures + 1
           /\ state' = IF failures + 1 >= threshold THEN "open" ELSE state
      [] state = "half-open" ->
           /\ state' = "open"
           /\ UNCHANGED failures
      [] OTHER ->
           /\ failures' = failures + 1
           /\ UNCHANGED state

\* RecordFailure lines 104-112: the switch on the state
FailureSwitch ==
    CASE state = "closed" ->
           /\ failures' = failures + 1
           /\ state' = IF failures + 1 >= threshold THEN "open" ELSE state
      [] state = "half-open" ->
           /\ state' = "open"
           /\ UNCHANGED failures
      [] OTHER -> UNCHANGED <<state, failures>>

\* mutant: only a failure counted while closed moves lastFailTime, so a failed
\* probe does not restart the cooldown
RecordFailureKeepsCooldown(c) ==
    /\ probing' = FALSE
    /\ lastFailTime' = IF state = "closed" THEN now ELSE lastFailTime
    /\ FailureSwitch
    /\ cb' = [cb EXCEPT ![c] = [pc |-> "idle", res |-> "none", probe |-> FALSE]]
    /\ streak' = IF streak < threshold THEN streak + 1 ELSE streak
    /\ probeFailedAt' = IF state = "half-open" THEN now ELSE probeFailedAt
    /\ openedAt' = IF state # "open" /\ state' = "open" THEN now ELSE openedAt
    /\ UNCHANGED <<threshold, cooldown, succeeded>>

\* mutant: a failure recorded while the breaker is open does not move
\* lastFailTime, the cooldown runs from the failure that opened it
RecordFailureOpenKeepsTime(c) ==
    /\ probing' = FALSE
    /\ lastFailTime' = IF state = "open" THEN lastFailTime ELSE now
    /\ FailureSwitch
    /\ cb' = [cb EXCEPT ![c] = IdleCaller]
    /\ streak' = IF streak < threshold THEN streak + 1 ELSE streak
    /\ probeFailedAt' = IF state = "half-open" THEN now ELSE probeFailedAt
    /\ openedAt' = IF state # "open" /\ state' = "open" THEN now ELSE openedAt
    /\ UNCHANGED <<threshold, cooldown, succeeded>>

\* CircuitBreaker.RecordFailure, from Lock to Unlock
RecordFailureLocked(c) ==
    /\ probing' = FALSE
    /\ lastFailTime' = now
    /\ FailureSwitch
    /\ cb' = [cb EXCEPT ![c] = IdleCaller]
    /\ streak' = IF streak < threshold THEN streak + 1 ELSE streak
    /\ probeFailedAt' = IF state = "half-open" THEN now ELSE probeFailedAt
    /\ openedAt' = IF state # "open" /\ state' = "open" THEN now ELSE openedAt
    /\ UNCHANGED <<threshold, cooldown, succeeded>>

\* CircuitBreaker.RecordFailure, called by a caller Allow let through
RecordFailure(c) ==
    /\ cb[c].pc = "inflight"
    /\ RecordFailureLocked(c)
    /\ UNCHANGED <<tmVars, doVars, now>>

\* ------------------------------------------------------- helper functions
\* Go's integer division truncates toward zero
GoDiv(x, y) == IF x >= 0 THEN x \div y ELSE -((-x) \div y)

RECURSIVE Pow2(_)
Pow2(n) == IF n = 0 THEN 1 ELSE 2 * Pow2(n - 1)

\* backoffDuration lines 254-257: base * 2^attempt, capped at maxBackoff
Backoff(attempt, base) ==
    LET backoff == base * Pow2(attempt)
    IN IF backoff > maxBackoff THEN maxBackoff ELSE backoff

\* mutant: the jitter is not centred on the backoff
backoffDurationUncentred(attempt, base) ==
    LET backoff == Backoff(attempt, base)
        n == GoDiv(backoff, 2)
    IN IF n <= 0
       THEN {[panic |-> TRUE, d |-> 0]}
       ELSE {[panic |-> FALSE, d |-> backoff + r] : r \in 0..(n - 1)}

\* backoffDuration lines 259-260: what the call can produce. rand.Int63n(n)
\* panics when n <= 0 and returns any r in [0, n) otherwise.
backoffDuration(attempt, base) ==
    LET backoff == Backoff(attempt, base)
        n == GoDiv(backoff, 2)
    IN IF n <= 0
       THEN {[panic |-> TRUE, d |-> 0]}
       ELSE {[panic |-> FALSE, d |-> backoff + (r - GoDiv(backoff, 4))] : r \in 0..(n - 1)}

\* A Retry-After header value: a text of one-character strings, or an HTTP-date
\* (which http.ParseTime accepts and strconv.ParseFloat does not) naming the
\* instant t of the clock.
TextHeader(chars) == [kind |-> "text", text |-> chars, t |-> 0]

DateHeader(t) == [kind |-> "date", text |-> <<>>, t |-> t]

Digits == {"0", "1", "2", "5"}

HeaderChars == Digits \cup {".", "-", "z"}

DigitValue(ch) == CASE ch = "0" -> 0 [] ch = "1" -> 1 [] ch = "2" -> 2 [] ch = "5" -> 5

RECURSIVE DecimalValue(_)
DecimalValue(ds) ==
    IF ds = <<>> THEN 0
    ELSE 10 * DecimalValue(SubSeq(ds, 1, Len(ds) - 1)) + DigitValue(ds[Len(ds)])

\* the first three fractional digits, as thousandths
Thousandths(frac) ==
    (IF Len(frac) >= 1 THEN 100 * DigitValue(frac[1]) ELSE 0)
        + (IF Len(frac) >= 2 THEN 10 * DigitValue(frac[2]) ELSE 0)
        + (IF Len(frac) >= 3 THEN DigitValue(frac[3]) ELSE 0)

\* strconv.ParseFloat on a text over HeaderChars: an optional sign, digits with
\* at most one point, at least one digit. The value is seconds * 1000,
\* in ticks, truncated toward zero as the conversion to time.Duration truncates.
ParseFloat(text) ==
    LET neg == Len(text) > 0 /\ text[1] = "-"
        u == IF neg THEN Tail(text) ELSE text
        dots == {i \in 1..Len(u) : u[i] = "."}
        ok == /\ \A i \in 1..Len(u) : u[i] \in Digits \cup {"."}
              /\ Cardinality(dots) <= 1
              /\ \E i \in 1..Len(u) : u[i] \in Digits
        dot == IF dots = {} THEN Len(u) + 1 ELSE CHOOSE i \in dots : TRUE
        whole == SubSeq(u, 1, dot - 1)
        frac == SubSeq(u, dot + 1, Len(u))
        ms == DecimalValue(whole) * Second + Thousandths(frac)
    IN [ok |-> ok, ms |-> IF ~ok THEN 0 ELSE IF neg THEN -ms ELSE ms]

\* time.Until(t)
Until(t) == (t - now) * ClockUnit

\* parseRetryAfter lines 269-285
parseRetryAfter(header) ==
    IF header.kind = "text" /\ header.text = <<>> THEN 0
    ELSE IF header.kind = "text" /\ ParseFloat(header.text).ok
         THEN ParseFloat(header.text).ms
    ELSE IF header.kind = "date" /\ Until(header.t) > 0 THEN Until(header.t)
    ELSE 0

\* the arguments the helper functions are called with
Attempts == 0..9

Bases == {-Second, 0, 1, 2, 3, Second, 2 * Second, 40 * Second}

Headers ==
    {TextHeader(text) : text \in UNION {[1..n -> HeaderChars] : n \in 0..MaxHeaderLen}}
        \cup {DateHeader(t) : t \in -1..(MaxTime + 1)}

BackoffDurationCall ==
    /\ fn.name = "backoffDuration"
    /\ ~fn.called
    /\ \E out \in backoffDuration(fn.attempt, fn.base) :
         fn' = [fn EXCEPT !.called = TRUE, !.panic = out.panic, !.d = out.d]
    /\ UNCHANGED <<tmVars, cbVars, maxRetries, hasCb, do, now>>

ParseRetryAfterCall ==
    /\ fn.name = "parseRetryAfter"
    /\ ~fn.called
    /\ fn' = [fn EXCEPT !.called = TRUE, !.d = parseRetryAfter(fn.header)]
    /\ UNCHANGED <<tmVars, cbVars, maxRetries, hasCb, do, now>>

\* ------------------------------------------------------------- Client.Do
\* the goroutine whose Do call is followed step by step; the Do calls of the
\* other goroutines are followed in what they do to the breaker only
DoCaller == 1

\* the bytes of a request body
Payload == <<"a", "b">>

NoHeader == TextHeader(<<>>)

\* what a server sends with a 429 or a 503: no Retry-After, "0", "2", "-2" or
\* a text that is no number
RetryAfterHeaders ==
    {NoHeader, TextHeader(<<"0">>), TextHeader(<<"2">>), TextHeader(<<"-", "2">>),
     TextHeader(<<"z">>)}

\* the duration Do sleeps for: the value of Retry-After, or what
\* backoffDuration(attempt, base) returns
NoDelay == [src |-> "none", d |-> 0, attempt |-> 0, base |-> 0]
RetryAfterDelay(d) == [src |-> "Retry-After", d |-> d, attempt |-> 0, base |-> 0]
BackoffDelay(attempt, base) == [src |-> "backoff", d |-> 0, attempt |-> attempt, base |-> base]

Statuses == {200, 404, 429, 503}

\* line 131
Retryable(status) == status = 429 \/ status = 503

\* lines 169
Is2xx(status) == status >= 200 /\ status < 300

\* A response body: its size in MiB, what it holds (nothing, a JSON object or
\* no JSON at all), whether the object has a string traceId, and whether
\* reading it fails.
Body(size, kind, trace, fails) ==
    [size |-> size, kind |-> kind, trace |-> trace, fails |-> fails]

EmptyBody == Body(0, "empty", FALSE, FALSE)

ResponseBodies ==
    {EmptyBody,
     Body(1, "object", TRUE, FALSE), Body(1, "object", FALSE, FALSE),
     Body(1, "garbage", FALSE, FALSE),
     Body(maxResponseBodySize + 1, "object", TRUE, FALSE),
     Body(1, "object", TRUE, TRUE)}

Max(a, b) == IF a >= b THEN a ELSE b

\* what Do returns: whether resp is non-nil, the error, and for the typed
\* errors their fields; with it what became of the decode target
Returned(resp, err) ==
    [resp |-> resp, err |-> err, status |-> 0, traceId |-> "", retryAfter |-> 0,
     result |-> "untouched", target |-> FALSE, body |-> EmptyBody]

NoReturn == Returned(FALSE, "none")

\* A Do call before it begins. log is what the transport was given and gave
\* back, attempt by attempt; read is the most that was read of one response
\* body and open the number of response bodies not closed; delay is the
\* argument of the sleepWithContext in progress.
IdleDo ==
    [pc |-> "idle", attempt |-> 0, hasBody |-> FALSE, stream |-> <<>>,
     buffered |-> FALSE, bodyBytes |-> <<>>, log |-> <<>>,
     transportErr |-> FALSE, status |-> 0, header |-> NoHeader,
     ctxDone |-> FALSE, fired |-> FALSE, wake |-> "none", delay |-> NoDelay,
     read |-> 0, open |-> 0, ret |-> NoReturn]

\* Do returns: its locals are gone (the log, what was read and left open of
\* the response bodies, and what ended the last sleep are kept for the record)
DoReturn(d, ret) ==
    [d EXCEPT !.pc = "done", !.ret = ret, !.stream = <<>>, !.buffered = FALSE,
              !.bodyBytes = <<>>, !.transportErr = FALSE, !.status = 0,
              !.header = NoHeader, !.fired = FALSE, !.delay = NoDelay]

\* mutant: the body is not restored before a retry
LoopHeadNoRestore(d, attempt) ==
    IF attempt <= maxRetries
    THEN [d EXCEPT !.pc = "allow", !.attempt = attempt, !.delay = NoDelay]
    ELSE DoReturn(d, Returned(FALSE, "no response received"))

\* lines 106-113 and 154-156: the loop condition, and the body restored for a
\* retry; a loop that never ran leaves resp nil
LoopHead(d, attempt) ==
    IF attempt <= maxRetries
    THEN [d EXCEPT !.pc = "allow", !.attempt = attempt, !.delay = NoDelay,
                   !.stream = IF attempt > 0 /\ d.buffered THEN d.bodyBytes ELSE @]
    ELSE DoReturn(d, Returned(FALSE, "no response received"))

\* lines 93-106: Do is called; the request body, if any, is read to its end
\* and kept, and req.Body is replaced by a reader over the bytes kept
DoCall(c) ==
    /\ c = DoCaller
    /\ do[c].pc = "idle"
    /\ \E hasBody \in BOOLEAN :
         \E readFails \in (IF hasBody THEN BOOLEAN ELSE {FALSE}) :
           LET called == [do[c] EXCEPT !.hasBody = hasBody,
                                       !.stream = IF hasBody THEN Payload ELSE <<>>]
               kept == [called EXCEPT !.buffered = TRUE, !.bodyBytes = called.stream]
           IN do' = [do EXCEPT ![c] =
                  IF ~hasBody THEN LoopHead(called, 0)
                  ELSE IF readFails
                       THEN DoReturn([called EXCEPT !.stream = <<>>],
                                   Returned(FALSE, "failed to read request body"))
                       ELSE LoopHead(kept, 0)]
    /\ UNCHANGED <<tmVars, cbVars, maxRetries, hasCb, fn, now>>

\* Before each attempt Do asks the breaker, if there is one, and returns its
\* error when the attempt is rejected.
DoAllow(c) ==
    /\ do[c].pc = "allow"
    /\ IF hasCb
       THEN /\ AllowLocked(c)
            /\ do' = [do EXCEPT ![c] =
                   IF cb'[c].res = "rejected"
                   THEN DoReturn(@, Returned(FALSE, "circuit breaker is open"))
                   ELSE [@ EXCEPT !.pc = "send"]]
       ELSE /\ do' = [do EXCEPT ![c].pc = "send"]
            /\ UNCHANGED cbVars
    /\ UNCHANGED <<tmVars, maxRetries, hasCb, fn, now>>

\* what one attempt can end in: a transport error (the only end when the
\* context is done), or a response
Outcomes(d) ==
    {[transportErr |-> TRUE, status |-> 0, header |-> NoHeader]}
        \cup (IF d.ctxDone THEN {}
              ELSE {[transportErr |-> FALSE, status |-> st, header |-> h] :
                      st \in Statuses, h \in RetryAfterHeaders}
                   \ {o \in [transportErr : {FALSE}, status : Statuses,
                             header : RetryAfterHeaders] :
                        ~Retryable(o.status) /\ o.header # NoHeader})

\* line 115: c.httpClient.Do(req). The transport reads req.Body to its end.
DoSend(c) ==
    /\ do[c].pc = "send"
    /\ \E o \in Outcomes(do[c]) :
         do' = [do EXCEPT ![c] =
                  [@ EXCEPT !.pc = "notify",
                            !.log = Append(@, [body |-> do[c].stream, status |-> o.status]),
                            !.stream = <<>>,
                            !.transportErr = o.transportErr,
                            !.status = o.status,
                            !.header = o.header,
                            !.open = IF o.transportErr THEN @ ELSE @ + 1]]
    /\ UNCHANGED <<tmVars, cbVars, maxRetries, hasCb, fn, now>>

\* the breaker, if there is one, is told of the attempt's outcome: a failure
\* for a transport error, a 429 or a 503, a success for a 2xx
Notify(c) ==
    IF ~hasCb THEN UNCHANGED cbVars
    ELSE IF do[c].transportErr \/ Retryable(do[c].status) THEN RecordFailureLocked(c)
    ELSE IF Is2xx(do[c].status) THEN RecordSuccessLocked(c)
    ELSE UNCHANGED cbVars

\* mutant: the Retry-After value is slept whatever its sign
retryDelayNoFallback(d) ==
    IF d.transportErr THEN BackoffDelay(d.attempt, Second)
    ELSE RetryAfterDelay(parseRetryAfter(d.header))

\* lines 120 and 134-139: the duration to sleep before the next attempt
retryDelay(d) ==
    IF d.transportErr THEN BackoffDelay(d.attempt, Second)
    ELSE LET retryAfter == parseRetryAfter(d.header) IN
         IF retryAfter <= 0 THEN BackoffDelay(d.attempt, 2 * Second)
         ELSE RetryAfterDelay(retryAfter)

\* lines 119-126 and 133-148: sleepWithContext starts the timer; the body of a
\* response that is retried was read to its end, unbounded, and closed
Sleep(d, drained) ==
    [d EXCEPT !.pc = "select", !.fired = FALSE, !.wake = "none",
              !.delay = retryDelay(d),
              !.read = IF d.transportErr THEN @ ELSE Max(@, drained),
              !.open = IF d.transportErr THEN @ ELSE @ - 1]

\* what io.ReadAll(io.LimitReader(resp.Body, maxResponseBodySize)) returns of
\* a body: a body cut short is no JSON any more
AsRead(body) ==
    IF body.size > maxResponseBodySize
    THEN Body(maxResponseBodySize, "garbage", FALSE, body.fails)
    ELSE body

\* mutant: a 429 without a usable Retry-After gets no default delay
parseResponseErrorNoDefault(status, header, body) ==
    LET traceId == IF body.size > 0 /\ body.kind = "object" /\ body.trace
                   THEN "abc123" ELSE ""
        respErr == [Returned(TRUE, "ResponseError") EXCEPT
                       !.status = status, !.traceId = traceId, !.body = body]
    IN IF status = 429
       THEN [respErr EXCEPT !.err = "RateLimitError",
                            !.retryAfter = IF header # NoHeader
                                           THEN parseRetryAfter(header) ELSE 0]
       ELSE respErr

\* parseResponseErrorFromBytes (guide.md lines 494-542)
parseResponseErrorFromBytes(status, header, body) ==
    LET traceId == IF body.size > 0 /\ body.kind = "object" /\ body.trace
                   THEN "abc123" ELSE ""
        respErr == [Returned(TRUE, "ResponseError") EXCEPT
                       !.status = status, !.traceId = traceId, !.body = body]
    IN IF status = 429
       THEN [respErr EXCEPT !.err = "RateLimitError",
                            !.retryAfter = IF header # NoHeader /\ parseRetryAfter(header) > 0
                                           THEN parseRetryAfter(header)
                                           ELSE 2 * Second]
       ELSE respErr

\* mutant: the body of a 2xx is never decoded
ReadResponseNoDecode(d, body, target) ==
    LET got == AsRead(body)
        closed == [d EXCEPT !.read = Max(@, got.size), !.open = @ - 1]
        ok == [Returned(TRUE, "nil") EXCEPT !.target = target, !.body = got]
    IN IF got.fails
       THEN DoReturn(closed, [ok EXCEPT !.err = "failed to read response body"])
       ELSE IF ~Is2xx(d.status)
       THEN DoReturn(closed, [parseResponseErrorFromBytes(d.status, d.header, got)
                               EXCEPT !.target = target])
       ELSE DoReturn(closed, ok)

\* lines 158-180: the body is read up to the bound and closed, then the error
\* is built or the body decoded into result
ReadResponse(d, body, target) ==
    LET got == AsRead(body)
        closed == [d EXCEPT !.read = Max(@, got.size), !.open = @ - 1]
        ok == [Returned(TRUE, "nil") EXCEPT !.target = target, !.body = got]
    IN IF got.fails
       THEN DoReturn(closed, [ok EXCEPT !.err = "failed to read response body"])
       ELSE IF ~Is2xx(d.status)
       THEN DoReturn(closed, [parseResponseErrorFromBytes(d.status, d.header, got)
                               EXCEPT !.target = target])
       ELSE IF target /\ got.size > 0
       THEN DoReturn(closed,
              IF got.kind = "object"
              THEN [ok EXCEPT !.result = "decoded"]
              ELSE [ok EXCEPT !.err = "failed to decode response"])
       ELSE DoReturn(closed, ok)

\* mutant: a 404 is retried like a 503
AfterAttemptRetryAll(c) ==
    LET d == do[c] IN
    \E body \in ResponseBodies : \E target \in BOOLEAN :
      do' = [do EXCEPT ![c] =
        IF d.transportErr
        THEN IF d.attempt < maxRetries
             THEN Sleep(d, 0)
             ELSE DoReturn(d, Returned(FALSE, "request failed after retries"))
        ELSE IF ~Is2xx(d.status) /\ d.attempt < maxRetries
        THEN Sleep(d, body.size)
        ELSE ReadResponse(d, body, target)]

\* lines 116-152 and 154-180: what Do does with the outcome of an attempt
AfterAttempt(c) ==
    LET d == do[c] IN
    \E body \in ResponseBodies : \E target \in BOOLEAN :
      do' = [do EXCEPT ![c] =
        IF d.transportErr
        THEN IF d.attempt < maxRetries
             THEN Sleep(d, 0)
             ELSE DoReturn(d, Returned(FALSE, "request failed after retries"))
        ELSE IF Retryable(d.status) /\ d.attempt < maxRetries
        THEN Sleep(d, body.size)
        ELSE ReadResponse(d, body, target)]

\* the attempt has ended
DoNotify(c) ==
    /\ do[c].pc = "notify"
    /\ Notify(c)
    /\ AfterAttempt(c)
    /\ UNCHANGED <<tmVars, maxRetries, hasCb, fn, now>>

\* mutant: the sleep is not interrupted by the context
AfterSleepIgnoreCtx(d, case) == LoopHead(d, d.attempt + 1)

\* lines 123-126 and 144-148: sleepWithContext has returned
AfterSleep(d, case) ==
    IF case = "ctx"
    THEN DoReturn(d, Returned(FALSE, "request cancelled during retry"))
    ELSE LoopHead(d, d.attempt + 1)

SleepReady(d) ==
    (IF d.ctxDone THEN {"ctx"} ELSE {}) \cup (IF d.fired THEN {"timer"} ELSE {})

\* sleepWithContext lines 243-248: the select; with no case ready the
\* goroutine parks
DoSleepSelect(c) ==
    /\ do[c].pc = "select"
    /\ IF SleepReady(do[c]) = {}
       THEN do' = [do EXCEPT ![c].pc = "parked"]
       ELSE \E case \in SleepReady(do[c]) :
              do' = [do EXCEPT ![c] = AfterSleep(@, case)]
    /\ UNCHANGED <<tmVars, cbVars, maxRetries, hasCb, fn, now>>

\* a parked goroutine runs again with the case that woke it
DoSleepWake(c) ==
    /\ do[c].pc = "parked"
    /\ do[c].wake # "none"
    /\ do' = [do EXCEPT ![c] = AfterSleep(@, @.wake)]
    /\ UNCHANGED <<tmVars, cbVars, maxRetries, hasCb, fn, now>>

\* the timer of sleepWithContext fires
DoTimer(c) ==
    /\ do[c].pc \in {"select", "parked"}
    /\ ~do[c].fired
    /\ do' = [do EXCEPT ![c] =
                [@ EXCEPT !.fired = TRUE,
                          !.wake = IF do[c].pc = "parked" /\ do[c].wake = "none"
                                   THEN "timer" ELSE @]]
    /\ UNCHANGED <<tmVars, cbVars, maxRetries, hasCb, fn, now>>

\* the context of the request becomes done: before an attempt is sent, which
\* makes it fail, or during the sleep
DoCtxDone(c) ==
    /\ do[c].pc \in {"send", "select", "parked"}
    /\ ~do[c].ctxDone
    /\ do' = [do EXCEPT ![c] =
                [@ EXCEPT !.ctxDone = TRUE,
                          !.wake = IF do[c].pc = "parked" /\ do[c].wake = "none"
                                   THEN "ctx" ELSE @]]
    /\ UNCHANGED <<tmVars, cbVars, maxRetries, hasCb, fn, now>>

\* ---------------------------------------------------------- specifications
\* the token manager is not used
NoTokenManager ==
    /\ token = NoToken
    /\ refreshCh = 0
    /\ initialized = FALSE
    /\ refreshBuffer = defaultRefreshBuffer
    /\ hasStore = FALSE
    /\ store = NoToken
    /\ chans = <<>>
    /\ gr = [g \in Callers |-> IdleCall]
    /\ admin = [pc |-> "idle", ops |-> 0, tok |-> NoToken, err |-> FALSE]
    /\ refreshCount = 0
    /\ lateCall = FALSE

\* the breaker is not used
NoBreaker ==
    /\ threshold = 1
    /\ cooldown = 0
    /\ state = "closed"
    /\ failures = 0
    /\ lastFailTime = ZeroTime
    /\ probing = FALSE
    /\ cb = [c \in Callers |-> IdleCaller]
    /\ streak = 0
    /\ succeeded = FALSE
    /\ probeFailedAt = ZeroTime
    /\ openedAt = ZeroTime

\* Do is not called
NoDo ==
    /\ maxRetries = 0
    /\ hasCb = FALSE
    /\ do = [c \in Callers |-> IdleDo]

\* no helper function is called
NoHelper == fn = [name |-> "none"]

StoredTokens ==
    {NoToken, ManagedToken(<<"stored", 0>>, -1), ManagedToken(<<"stored", 0>>, TenHours)}

\* A token manager as NewTokenManager builds it, over a store that may hold a
\* token from an earlier run; NumCallers goroutines call GetToken once each
\* while one goroutine calls SetInitialToken / InvalidateToken.
Init ==
    /\ NewTokenManager
    /\ store \in IF hasStore THEN StoredTokens ELSE {NoToken}
    /\ chans = <<>>
    /\ gr = [g \in Callers |-> IdleCall]
    /\ admin = [pc |-> "idle", ops |-> 0, tok |-> NoToken, err |-> FALSE]
    /\ refreshCount = 0
    /\ lateCall = FALSE
    /\ now = 0
    /\ NoBreaker
    /\ NoDo
    /\ NoHelper

GetTokenStep(g) ==
    \/ GetTokenCall(g)
    \/ GetTokenLock(g)
    \/ LoadFromStoreGet(g)
    \/ LoadFromStoreInstall(g)
    \/ GetTokenRelock(g)
    \/ GetTokenSelect(g)
    \/ GetTokenWake(g)
    \/ DoRefreshCall(g)
    \/ DoRefreshPersist(g)
    \/ GetTokenCommit(g)
    \/ GetTokenClose(g)
    \/ CtxDone(g)

Next ==
    \/ \E g \in Callers : GetTokenStep(g)
    \/ SetInitialTokenLock
    \/ SetInitialTokenPersist
    \/ InvalidateTokenLock
    \/ InvalidateTokenDelete
    \/ Tick

Spec == Init /\ [][Next]_vars

\* TestTokenManager_ConcurrentRefresh: NumCallers goroutines call GetToken on a
\* manager whose cached token is expired or absent; nothing else touches it.
InitConcurrent ==
    /\ token \in {NoToken, ManagedToken(<<"old", 0>>, -1)}
    /\ refreshCh = 0
    /\ initialized \in BOOLEAN
    /\ refreshBuffer = defaultRefreshBuffer
    /\ hasStore \in BOOLEAN
    /\ store \in IF hasStore THEN StoredTokens ELSE {NoToken}
    /\ chans = <<>>
    /\ gr = [g \in Callers |-> IdleCall]
    /\ admin = [pc |-> "idle", ops |-> 0, tok |-> NoToken, err |-> FALSE]
    /\ refreshCount = 0
    /\ lateCall = FALSE
    /\ now = 0
    /\ NoBreaker
    /\ NoDo
    /\ NoHelper

NextConcurrent ==
    \/ \E g \in Callers : GetTokenStep(g)
    \/ Tick

SpecConcurrent == InitConcurrent /\ [][NextConcurrent]_vars

\* A breaker as newCircuitBreaker builds it, shared by NumCallers callers that
\* each call Allow and, when let through, record the outcome of the request.
InitBreaker ==
    /\ newCircuitBreaker
    /\ cb = [c \in Callers |-> IdleCaller]
    /\ streak = 0
    /\ succeeded = FALSE
    /\ probeFailedAt = ZeroTime
    /\ openedAt = ZeroTime
    /\ now = 0
    /\ NoTokenManager
    /\ NoDo
    /\ NoHelper

NextBreaker ==
    \/ \E c \in Callers : Allow(c)
    \/ \E c \in Callers : RecordSuccess(c)
    \/ \E c \in Callers : RecordFailure(c)
    \/ Tick

SpecBreaker == InitBreaker /\ [][NextBreaker]_vars

\* One call of backoffDuration or of parseRetryAfter, with any of the
\* arguments above, at any time of the clock.
InitHelpers ==
    /\ fn \in {[name |-> "backoffDuration", attempt |-> a, base |-> b,
                called |-> FALSE, panic |-> FALSE, d |-> 0] :
                  a \in Attempts, b \in Bases}
              \cup {[name |-> "parseRetryAfter", header |-> h,
                     called |-> FALSE, d |-> 0] : h \in Headers}
    /\ now \in 0..MaxTime
    /\ NoTokenManager
    /\ NoBreaker
    /\ NoDo

NextHelpers ==
    \/ BackoffDurationCall
    \/ ParseRetryAfterCall

SpecHelpers == InitHelpers /\ [][NextHelpers]_vars

\* A client as NewClient builds it with WithRetry and, perhaps, a breaker.
\* One goroutine calls Do; the Do calls of the others are reduced to their
\* attempts' calls of the breaker: Allow, then RecordFailure, RecordSuccess or
\* (for a status like 404) nothing.
InitDo ==
    /\ maxRetries \in 0..MaxRetries
    /\ hasCb \in BOOLEAN
    /\ IF hasCb THEN newCircuitBreaker
       ELSE /\ threshold = 1 /\ cooldown = 0 /\ state = "closed" /\ failures = 0
            /\ lastFailTime = ZeroTime /\ probing = FALSE
    /\ cb = [c \in Callers |-> IdleCaller]
    /\ streak = 0
    /\ succeeded = FALSE
    /\ probeFailedAt = ZeroTime
    /\ openedAt = ZeroTime
    /\ do = [c \in Callers |-> IdleDo]
    /\ now = 0
    /\ NoTokenManager
    /\ NoHelper

DoStep(c) ==
    \/ DoCall(c)
    \/ DoAllow(c)
    \/ DoSend(c)
    \/ DoNotify(c)
    \/ DoSleepSelect(c)
    \/ DoSleepWake(c)
    \/ DoTimer(c)
    \/ DoCtxDone(c)

\* an attempt of another goroutine's Do call, as the breaker sees it
OtherAttempt(c) ==
    /\ c # DoCaller
    /\ hasCb
    /\ \/ Allow(c)
       \/ RecordSuccess(c)
       \/ RecordFailure(c)

NextDo ==
    \/ \E c \in Callers : DoStep(c)
    \/ \E c \in Callers : OtherAttempt(c)
    \/ Tick

SpecDo == InitDo /\ [][NextDo]_vars

\* ------------------------------------------------- token manager: claims
AllDone == \A g \in Callers : gr[g].pc = "done"

NoContextDone == \A g \in Callers : ~gr[g].ctxDone

\* no call ran the first-call load: the manager was initialized (or has no
\* store) when the calls began
NoFirstLoad == \A g \in Callers : ~gr[g].didLoad

\* the calls overlap: each began before any refresh call or call had returned
Concurrent == ~lateCall

EveryRefreshSucceededFresh ==
    \A g \in Callers : gr[g].refreshed =>
        gr[g].err = NilErr /\ ~IsExpiring(gr[g].newToken, refreshBuffer)

EveryRefreshFailed == \A g \in Callers : gr[g].refreshed => gr[g].err # NilErr

\* the goroutines that hold the refresher role: from installing refreshCh
\* (line 126) to clearing it (line 138)
Refreshers == {g \in Callers : gr[g].pc \in {"doRefresh", "persist", "commit"}}

\* C1: when NumCallers GetToken calls on an initialized manager whose cached
\* token is expired or absent have all returned, no context ended, and every
\* refresh call succeeded with a token outside the refresh buffer, then the
\* refresh call was made exactly once and every call returned that token.
C1_SingleflightSuccess ==
    (AllDone /\ NoFirstLoad /\ NoContextDone /\ EveryRefreshSucceededFresh)
        => /\ refreshCount = 1
           /\ \A g \in Callers :
                gr[g].tok = <<"refreshed", 1>> /\ gr[g].reterr = NilErr

C1_Witness ==
    /\ AllDone /\ NoFirstLoad /\ NoContextDone /\ EveryRefreshSucceededFresh
    /\ Concurrent
    /\ \E g \in Callers : ~gr[g].refreshed /\ gr[g].tok = <<"refreshed", 1>>

C3_OneRefreshInFlight ==
    /\ Cardinality({g \in Callers : gr[g].pc = "doRefresh"}) <= 1
    /\ Cardinality(Refreshers) <= 1
    /\ (refreshCh # 0) <=> (Refreshers # {})
    /\ refreshCh # 0 => (refreshCh \in 1..Len(chans) /\ chans[refreshCh] = 0)

C3_Witness ==
    \E g, h \in Callers :
        /\ gr[g].pc = "doRefresh"
        /\ gr[h].pc = "parked" /\ gr[h].ch = refreshCh
        /\ refreshCount = 0

\* C4: every channel a refresher made is closed at most once; while it is not
\* yet closed its refresher is still on the way to closing it (it holds the
\* role, or has cleared refreshCh and is at close(ch)); a refresher at
\* close(ch) has already cleared the marker; there is one channel per refresh
\* cycle; and once every call has returned, every channel has been closed
\* exactly once and the marker is nil, whether the refreshes succeeded or failed.
C4_SignalledExactlyOnce ==
    /\ \A i \in 1..Len(chans) :
         /\ chans[i] <= 1
         /\ chans[i] = 0 =>
              Cardinality({g \in Callers :
                  \/ g \in Refreshers /\ refreshCh = i
                  \/ gr[g].pc = "close" /\ gr[g].ch = i}) = 1
    /\ \A g \in Callers : gr[g].pc = "close" => refreshCh # gr[g].ch
    /\ Len(chans) = refreshCount + Cardinality({g \in Callers : gr[g].pc = "doRefresh"})
    /\ AllDone => (refreshCh = 0 /\ \A i \in 1..Len(chans) : chans[i] = 1)

C4_Witness ==
    /\ AllDone
    /\ Len(chans) >= 2
    /\ \E g, h \in Callers :
         /\ gr[g].refreshed /\ gr[g].err # NilErr
         /\ gr[h].refreshed /\ gr[h].err = NilErr

\* C5: a call parked in the select on another call's refresh and woken by its
\* context ending returns the cancellation error with no token as its next
\* step, and that step makes no refresh call and leaves the cached token, the
\* marker, the channels and the store as they are.
C5_CancelledWaiterReturns ==
    [][\A g \in Callers :
         (gr[g].pc = "parked" /\ gr[g].wake = "ctx" /\ gr'[g] # gr[g])
            => /\ gr'[g].pc = "done"
               /\ gr'[g].reterr = ErrCancelled
               /\ gr'[g].tok = NoAccess
               /\ ~gr'[g].refreshed
               /\ token' = token
               /\ refreshCh' = refreshCh
               /\ refreshCount' = refreshCount
               /\ chans' = chans
               /\ store' = store]_vars

\* the cancelled waiter has returned while the refresh it waited for is still
\* in the refresh call
C5_Witness ==
    \E g, h \in Callers :
        /\ gr[g].pc = "done" /\ gr[g].wake = "ctx" /\ gr[g].reterr = ErrCancelled
        /\ gr[h].pc = "doRefresh" /\ refreshCh # 0
        /\ refreshCount = 0

\* ------------------------------------------------- circuit breaker: claims
\* streak counts the RecordFailure calls since the last RecordSuccess (or since
\* construction), up to the threshold.

\* C6: a RecordFailure that is the threshold-th in a row leaves the breaker
\* open, one that is an earlier one in the row leaves it closed, and Allow
\* called after fewer than threshold failures in a row succeeds.
C6_OpensAfterThresholdFailures ==
    [][\A c \in Callers :
         /\ (RecordFailure(c) /\ streak' = threshold) => state' = "open"
         /\ (RecordFailure(c) /\ streak' < threshold) => state' = "closed"
         /\ (Allow(c) /\ streak < threshold)
               => (state' = "closed" /\ cb'[c].res = "ok" /\ cb'[c].pc = "inflight")]_vars

C6_Witness ==
    /\ threshold > 1
    /\ ~succeeded
    /\ streak = threshold
    /\ state = "open"
    /\ failures = threshold

\* C7: Allow called while the breaker is open and less than the cooldown has
\* elapsed since the last recorded failure is rejected and changes nothing in
\* the breaker.
C7_OpenRejectsWithinCooldown ==
    [][\A c \in Callers :
         (state = "open" /\ Since(lastFailTime) < cooldown /\ Allow(c))
            => /\ cb'[c].res = "rejected" /\ cb'[c].pc = "idle"
               /\ state' = "open"
               /\ UNCHANGED <<failures, lastFailTime, probing>>]_vars

C7_Witness ==
    /\ state = "open"
    /\ Since(lastFailTime) < cooldown
    /\ \E c \in Callers : cb[c].res = "rejected"

\* C8: Allow called while the breaker is open and at least the cooldown has
\* elapsed since the last recorded failure succeeds and leaves the breaker
\* half-open with the probe marked.
C8_OpenToHalfOpenAfterCooldown ==
    [][\A c \in Callers :
         (state = "open" /\ Since(lastFailTime) >= cooldown /\ Allow(c))
            => /\ cb'[c].res = "ok" /\ cb'[c].pc = "inflight"
               /\ state' = "half-open"
               /\ probing']_vars

C8_Witness ==
    /\ state = "half-open"
    /\ cooldown > 0
    /\ Since(lastFailTime) = cooldown
    /\ \E c \in Callers : cb[c].pc = "inflight" /\ cb[c].probe

\* the callers Allow let through as half-open probes whose outcome has not
\* been recorded
ProbesInFlight == {c \in Callers : cb[c].pc = "inflight" /\ cb[c].probe}

\* C9 as claimed: while the breaker is half-open at most one caller admitted as
\* a probe is in flight.
C9_AsClaimed == state = "half-open" => Cardinality(ProbesInFlight) <= 1

\* C10: RecordSuccess leaves the breaker closed with no failures counted and no
\* probe marked; and in every state the breaker is closed exactly when fewer
\* than threshold failures were recorded in a row since the last RecordSuccess,
\* the counter then being that number.
C10_SuccessResets ==
    /\ [](/\ (state = "closed") <=> (streak < threshold)
          /\ state = "closed" => failures = streak)
    /\ [][\A c \in Callers :
            RecordSuccess(c) => (state' = "closed" /\ failures' = 0 /\ ~probing')]_vars

\* closed after a success, with threshold - 1 failures recorded since
C10_Witness ==
    /\ succeeded
    /\ threshold > 1
    /\ state = "closed"
    /\ failures = threshold - 1

\* C11: a RecordFailure recorded while the breaker is half-open leaves it open
\* with the cooldown counted from that failure (lastFailTime is now and no
\* probe is marked); and from then on, as long as no RecordSuccess is recorded,
\* an Allow called before the cooldown has elapsed since that failure is
\* rejected and leaves the breaker open.
C11_HalfOpenFailureReopens ==
    [][\A c \in Callers :
         /\ (state = "half-open" /\ RecordFailure(c))
               => (state' = "open" /\ lastFailTime' = now /\ ~probing'
                   /\ failures' = failures)
         /\ (probeFailedAt # ZeroTime /\ Since(probeFailedAt) < cooldown /\ Allow(c))
               => (cb'[c].res = "rejected" /\ cb'[c].pc = "idle" /\ state' = "open")]_vars

\* a caller was rejected after the probe had failed, before the cooldown
\* counted from the probe's failure had elapsed
C11_Witness ==
    /\ probeFailedAt # ZeroTime
    /\ Since(probeFailedAt) < cooldown
    /\ state = "open"
    /\ lastFailTime = probeFailedAt
    /\ \E c \in Callers : cb[c].res = "rejected"

\* ---------------------------------------------------------- Do: claims
\* the outcome of the last attempt a call made
LastStatus(c) == do[c].log[Len(do[c].log)].status

\* every attempt but the last ended in a 429 or a 503
RetriedOnStatus(c) ==
    \A i \in 1..(Len(do[c].log) - 1) : do[c].log[i].status \in {429, 503}

C13_RetryCarriesBody ==
    \A c \in Callers :
        do[c].hasBody => \A i \in 1..Len(do[c].log) : do[c].log[i].body = Payload

C13_Witness ==
    /\ do[DoCaller].hasBody
    /\ Len(do[DoCaller].log) = 2
    /\ do[DoCaller].log[1].status = 503
    /\ do[DoCaller].log[2].status = 200
    /\ do[DoCaller].log[2].body = Payload

\* C14: a Do call blocked in the sleep between attempts whose context becomes
\* done is woken by it, whether or not the timer fires afterwards, and its
\* next step returns the cancellation error with no response and without
\* another attempt; a call that has returned takes no further step.
C14_CancelledSleepReturns ==
    [][\A c \in Callers :
         /\ (do[c].pc = "parked" /\ do[c].wake = "none" /\ DoCtxDone(c))
               => do'[c].wake = "ctx"
         /\ (do[c].pc = "parked" /\ do[c].wake = "ctx")
               => \/ do'[c] = do[c]
                  \/ do'[c] = [do[c] EXCEPT !.fired = TRUE]
                  \/ /\ do'[c].pc = "done"
                     /\ do'[c].ret.err = "request cancelled during retry"
                     /\ ~do'[c].ret.resp
                     /\ do'[c].log = do[c].log
         /\ do[c].pc = "done" => do'[c] = do[c]]_vars

\* the call returned the cancellation error, woken by its context while the
\* timer had not fired, after one attempt
C14_Witness ==
    /\ do[DoCaller].pc = "done"
    /\ do[DoCaller].wake = "ctx"
    /\ do[DoCaller].ret.err = "request cancelled during retry"
    /\ Len(do[DoCaller].log) = 1
    /\ maxRetries >= 1

\* C15 as claimed: a Do call that has returned made at least one and at most
\* maxRetries + 1 attempts, each but the last ending in a transport error, a
\* 429 or a 503.
C15_AsClaimed ==
    \A c \in Callers :
        do[c].pc = "done" =>
            /\ Len(do[c].log) >= 1
            /\ Len(do[c].log) <= maxRetries + 1
            /\ \A i \in 1..(Len(do[c].log) - 1) : do[c].log[i].status \in {0, 429, 503}

\* C15 amended: a Do call makes at most maxRetries + 1 attempts, each but the
\* last ending in a transport error, a 429 or a 503; it returns without any
\* attempt only when the request body could not be read or the breaker
\* rejected the first attempt.
C15_AttemptsBounded ==
    \A c \in Callers :
        /\ Len(do[c].log) <= maxRetries + 1
        /\ \A i \in 1..(Len(do[c].log) - 1) : do[c].log[i].status \in {0, 429, 503}
        /\ (do[c].pc = "done" /\ Len(do[c].log) = 0)
              => do[c].ret.err \in {"failed to read request body", "circuit breaker is open"}

\* the retries ran out on a 503 and the call returned after maxRetries + 1
\* attempts
C15_Witness ==
    /\ maxRetries = MaxRetries
    /\ do[DoCaller].pc = "done"
    /\ Len(do[DoCaller].log) = maxRetries + 1
    /\ LastStatus(DoCaller) = 503
    /\ do[DoCaller].log[1].status = 0

\* C16: when the first k <= maxRetries attempts of a Do call each ended in a
\* 429 or a 503 and attempt k + 1 got a 2xx whose body was read without error
\* and is a JSON object, with a decode target given, Do has returned the
\* response and no error, the body is decoded into the target, and the call
\* made k + 1 attempts, no more.
C16_SucceedsAfterRetries ==
    \A c \in Callers :
        (/\ do[c].pc = "done"
         /\ Len(do[c].log) >= 1
         /\ LastStatus(c) \in 200..299
         /\ RetriedOnStatus(c))
            => /\ Len(do[c].log) <= maxRetries + 1
               /\ do[c].ret.resp
               /\ (do[c].ret.target /\ do[c].ret.body.kind = "object" /\ ~do[c].ret.body.fails)
                     => (do[c].ret.err = "nil" /\ do[c].ret.result = "decoded")

C16_Witness ==
    /\ maxRetries >= 1
    /\ do[DoCaller].pc = "done"
    /\ Len(do[DoCaller].log) = 2
    /\ do[DoCaller].log[1].status = 429
    /\ do[DoCaller].log[2].status = 200
    /\ do[DoCaller].ret.err = "nil"
    /\ do[DoCaller].ret.result = "decoded"

\* C17 as claimed: when Do has returned, no more than maxResponseBodySize was
\* read of any response body it received, and every response body was closed.
C17_AsClaimed ==
    \A c \in Callers :
        do[c].pc = "done" =>
            /\ do[c].read <= maxResponseBodySize
            /\ do[c].open = 0

\* the call stopped retrying on a response: the status cannot be retried, or
\* no retry is left
StoppedOnResponse(c) ==
    /\ do[c].pc = "done"
    /\ Len(do[c].log) >= 1
    /\ LastStatus(c) # 0
    /\ (LastStatus(c) \in {429, 503}) => Len(do[c].log) = maxRetries + 1

TypedError(c) ==
    /\ do[c].ret.resp
    /\ do[c].ret.result = "untouched"
    /\ do[c].ret.status = LastStatus(c)
    /\ do[c].ret.traceId =
          (IF do[c].ret.body.kind = "object" /\ do[c].ret.body.trace THEN "abc123" ELSE "")
    /\ IF LastStatus(c) = 429
       THEN do[c].ret.err = "RateLimitError" /\ do[c].ret.retryAfter > 0
       ELSE do[c].ret.err = "ResponseError"

\* C18 as claimed: when the last attempt of a Do call that has returned got a
\* response with a status outside [200, 300), Do returned the response with a
\* typed error (a rate-limit error with a positive delay for 429, a response
\* error with the status and the trace id otherwise) and the target untouched.
C18_AsClaimed ==
    \A c \in Callers :
        (/\ do[c].pc = "done"
         /\ Len(do[c].log) >= 1
         /\ LastStatus(c) # 0
         /\ LastStatus(c) \notin 200..299)
            => TypedError(c)

\* C18 amended: when a Do call stopped retrying on a response with a status
\* outside [200, 300) and the body was read without error, Do returned the
\* response with a typed error and the target untouched; when reading the body
\* failed, it returned the response with an error that is not typed.
C18_TypedErrorWhenBodyRead ==
    \A c \in Callers :
        (StoppedOnResponse(c) /\ LastStatus(c) \notin 200..299)
            => IF do[c].ret.body.fails
               THEN /\ do[c].ret.resp
                    /\ do[c].ret.err = "failed to read response body"
                    /\ do[c].ret.result = "untouched"
               ELSE TypedError(c)

\* a 429 with no retry left and a Retry-After of "0": the rate-limit error has
\* the default delay; the caller's target is untouched
C18_Witness ==
    /\ StoppedOnResponse(DoCaller)
    /\ LastStatus(DoCaller) = 429
    /\ do[DoCaller].ret.err = "RateLimitError"
    /\ do[DoCaller].ret.retryAfter = 2 * Second
    /\ do[DoCaller].ret.target
    /\ do[DoCaller].ret.result = "untouched"

\* ------------------------------------------------- helper functions: claims
BackoffCalled == fn.name = "backoffDuration" /\ fn.called

\* min(base * 2^attempt, 30s)
Expected(attempt, base) ==
    IF base * Pow2(attempt) < maxBackoff THEN base * Pow2(attempt) ELSE maxBackoff

\* d lies within 25% of e, either way
WithinQuarter(d, e) == 4 * d >= 3 * e /\ 4 * d <= 5 * e

ParseCalled == fn.name = "parseRetryAfter" /\ fn.called

\* C20 as claimed: parseRetryAfter never returns a negative duration; it
\* returns 0 for an empty, unparsable or past-dated header, the number of
\* seconds for a non-negative number, and the time remaining for a future date.
C20_AsClaimed ==
    ParseCalled =>
        /\ fn.d >= 0
        /\ (fn.header.kind = "text" /\ ~ParseFloat(fn.header.text).ok) => fn.d = 0
        /\ (fn.header.kind = "text" /\ ParseFloat(fn.header.text).ok
                /\ fn.header.text[1] # "-")
              => fn.d = ParseFloat(fn.header.text).ms
        /\ (fn.header.kind = "date" /\ fn.header.t <= now) => fn.d = 0
        /\ (fn.header.kind = "date" /\ fn.header.t > now)
              => fn.d = (fn.header.t - now) * ClockUnit

\* ---------------------------------------- token manager: seeding and store
\* the last SetInitialToken / InvalidateToken call has returned
AdminIdle == admin.pc = "idle" /\ admin.ops >= 1

\* the last call of the admin goroutine was SetInitialToken and returned nil
Seeded == AdminIdle /\ admin.tok # NoToken /\ ~admin.err

\* no GetToken call other than g's is past taking the lock and not yet returned
NoOtherCallInFlight(g) ==
    \A h \in Callers \ {g} : gr[h].pc \in {"idle", "enter", "done"}

\* C21: when SetInitialToken has returned nil, the token it set is the cached
\* token and lies outside the refresh buffer, and no other GetToken call is in
\* flight, the store (if there is one) holds that token, and a GetToken call
\* that takes the lock returns its access token in that step: no load from
\* the store, no refresh call.
C21_SeededTokenServed ==
    [][\A g \in Callers :
         (/\ Seeded
          /\ token = admin.tok
          /\ ~IsExpiring(token, refreshBuffer)
          /\ NoOtherCallInFlight(g)
          /\ GetTokenLock(g))
            => /\ gr'[g].pc = "done"
               /\ gr'[g].tok = admin.tok.at
               /\ gr'[g].reterr = NilErr
               /\ gr'[g].didLoad = gr[g].didLoad
               /\ refreshCount' = refreshCount
               /\ hasStore => store = admin.tok /\ store' = store]_vars

\* a manager with a store was seeded, the store holds the seed, and the first
\* GetToken ever returned the seed without a load and without a refresh
C21_Witness ==
    /\ Seeded
    /\ hasStore
    /\ store = admin.tok
    /\ refreshCount = 0
    /\ \E g \in Callers :
         /\ gr[g].pc = "done"
         /\ gr[g].tok = admin.tok.at
         /\ ~gr[g].didLoad
    /\ \A g \in Callers : gr[g].pc \in {"idle", "done"} /\ ~gr[g].didLoad

\* the last call of the admin goroutine was InvalidateToken and returned nil
Invalidated == AdminIdle /\ admin.tok = NoToken /\ ~admin.err

\* C22 as claimed: once InvalidateToken has returned nil, a GetToken call that
\* takes the lock while no refresh call has been made yet does not return a
\* token from the cache, whatever other GetToken calls are in flight.
C22_AsClaimed ==
    [][\A g \in Callers :
         (Invalidated /\ refreshCount = 0 /\ GetTokenLock(g))
            => gr'[g].pc # "done"]_vars

\* neither SetInitialToken nor InvalidateToken was ever called
NeverSeeded == admin.ops = 0 /\ admin.pc = "idle"

\* the store holds the token of an earlier run, outside the refresh buffer
StoreHoldsFresh ==
    hasStore /\ store.at = <<"stored", 0>> /\ ~IsExpiring(store, refreshBuffer)

NoStoreGetFailed == \A g \in Callers : ~gr[g].getErr

\* C23 as claimed: on a manager never seeded whose store holds a token outside
\* the refresh buffer and whose store.Get has not failed, no refresh call is
\* made and every GetToken call that has returned returned the stored token.
C23_AsClaimed ==
    (NeverSeeded /\ StoreHoldsFresh /\ NoStoreGetFailed /\ NoContextDone)
        => /\ refreshCount = 0
           /\ \A g \in Callers :
                gr[g].pc = "done" => (gr[g].tok = store.at /\ gr[g].reterr = NilErr)

\* C24: a store failure never fails GetToken. A store.Get error leaves the
\* cache alone and sends the call on to the validity check, where it returns a
\* usable cached token or waits on or starts a refresh; after a store.Set error
\* the refresher still installs the new token and returns it; and every call
\* that returns an error was cancelled while waiting or had its own refresh
\* call fail.
C24_StoreFailureTolerated ==
    [][\A g \in Callers :
         /\ (LoadFromStoreGet(g) /\ gr'[g].getErr)
               => gr'[g].pc = "relock" /\ token' = token
         /\ (gr[g].getErr /\ GetTokenRelock(g))
               => IF token # NoToken /\ ~IsExpiring(token, refreshBuffer)
                  THEN gr'[g].pc = "done" /\ gr'[g].reterr = NilErr
                       /\ gr'[g].tok = token.at
                  ELSE gr'[g].pc \in {"select", "doRefresh"}
         /\ (gr[g].setErr /\ GetTokenCommit(g))
               => token' = gr[g].newToken /\ token' # NoToken
         /\ (gr[g].setErr /\ GetTokenClose(g))
               => gr'[g].pc = "done" /\ gr'[g].reterr = NilErr
                  /\ gr'[g].tok = gr[g].newToken.at
         /\ (gr[g].pc # "done" /\ gr'[g].pc = "done" /\ gr'[g].reterr # NilErr)
               => \/ gr[g].pc \in {"select", "parked"} /\ gr[g].ctxDone
                     /\ gr'[g].reterr = ErrCancelled
                  \/ gr[g].pc = "close" /\ ~gr[g].setErr
                     /\ gr'[g].reterr[1] = "token refresh failed"]_vars

\* a call whose store.Get and store.Set both failed has returned the token it
\* refreshed, which is cached and is not the one in the store
C24_Witness ==
    \E g \in Callers :
        /\ gr[g].pc = "done" /\ gr[g].getErr /\ gr[g].setErr
        /\ gr[g].reterr = NilErr /\ gr[g].tok = gr[g].newToken.at
        /\ token = gr[g].newToken /\ store # token

\* ------------------------------------------------------ Client.NewRequest
\* what tokenManager.GetToken can hand to NewRequest: a token (perhaps the
\* empty one) with no error, or no token with an error
GetTokenResults ==
    {[tok |-> NoAccess, err |-> NilErr], [tok |-> <<"refreshed", 1>>, err |-> NilErr],
     [tok |-> NoAccess, err |-> ErrCancelled],
     [tok |-> NoAccess, err |-> <<"token refresh failed", 1>>]}

\* c.token, the static token of WithToken / NewClient
StaticTokens == {NoAccess, <<"static", 0>>}

\* the body argument: none, one that marshals, one json.Marshal rejects
RequestBodies == {"nil", "json", "unmarshalable"}

NoRequest == [built |-> FALSE, authorization |-> <<>>, hasBody |-> FALSE]

\* the *http.Request with its Authorization header (<<>>: not set)
Request(authorization, hasBody) ==
    [built |-> TRUE, authorization |-> authorization, hasBody |-> hasBody]

Bearer(tok) == <<"Bearer ", tok>>

\* mutant: when GetToken fails the static token is used instead
NewRequestFallsBack(hasTokenManager, getToken, static, pathOk, methodOk, body) ==
    IF ~pathOk
    THEN [req |-> NoRequest, err |-> <<"invalid path", NilErr>>]
    ELSE IF body = "unmarshalable"
    THEN [req |-> NoRequest, err |-> <<"failed to marshal request body", NilErr>>]
    ELSE IF ~methodOk
    THEN [req |-> NoRequest, err |-> <<"failed to create request", NilErr>>]
    ELSE IF hasTokenManager /\ getToken.err = NilErr
    THEN [req |-> Request(IF getToken.tok # NoAccess THEN Bearer(getToken.tok) ELSE <<>>,
                          body # "nil"),
          err |-> NilErr]
    ELSE [req |-> Request(IF static # NoAccess THEN Bearer(static) ELSE <<>>,
                          body # "nil"),
          err |-> NilErr]

\* NewRequest lines 40-83: the request and the error it returns. getToken is
\* what c.tokenManager.GetToken returns if it is called.
NewRequest(hasTokenManager, getToken, static, pathOk, methodOk, body) ==
    IF ~pathOk
    THEN [req |-> NoRequest, err |-> <<"invalid path", NilErr>>]
    ELSE IF body = "unmarshalable"
    THEN [req |-> NoRequest, err |-> <<"failed to marshal request body", NilErr>>]
    ELSE IF ~methodOk
    THEN [req |-> NoRequest, err |-> <<"failed to create request", NilErr>>]
    ELSE IF hasTokenManager
    THEN IF getToken.err # NilErr
         THEN [req |-> NoRequest, err |-> <<"failed to get access token", getToken.err>>]
         ELSE [req |-> Request(IF getToken.tok # NoAccess THEN Bearer(getToken.tok)
                               ELSE <<>>,
                               body # "nil"),
               err |-> NilErr]
    ELSE [req |-> Request(IF static # NoAccess THEN Bearer(static) ELSE <<>>,
                          body # "nil"),
          err |-> NilErr]

NewRequestCall ==
    /\ fn.name = "NewRequest"
    /\ ~fn.called
    /\ fn' = [fn EXCEPT !.called = TRUE,
                !.out = NewRequest(fn.hasTokenManager, fn.getToken, fn.static,
                                   fn.pathOk, fn.methodOk, fn.body)]
    /\ UNCHANGED <<tmVars, cbVars, maxRetries, hasCb, do, now>>

NewRequestInputs ==
    {[name |-> "NewRequest", hasTokenManager |-> tm, getToken |-> gt, static |-> st,
      pathOk |-> p, methodOk |-> m, body |-> b, called |-> FALSE,
      out |-> [req |-> NoRequest, err |-> NilErr]] :
        tm \in BOOLEAN, gt \in GetTokenResults, st \in StaticTokens,
        p \in BOOLEAN, m \in BOOLEAN, b \in RequestBodies}

\* -------------------------------------------------------- buildQueryString
\* A struct field as reflect shows it: the parts of its url tag split at the
\* commas (<<>>: no tag), its kind, its value as a sequence of strings (a
\* scalar has one), isNil for a nil slice, and sub, the fields of a struct.
Field(tag, kind, v, isNil, sub) ==
    [tag |-> tag, kind |-> kind, v |-> v, isNil |-> isNil, sub |-> sub]

IntField(tag, n) == Field(tag, "int", <<n>>, FALSE, <<>>)
StringField(tag, s) == Field(tag, "string", <<s>>, FALSE, <<>>)
SliceField(tag, elems, isNil) == Field(tag, "slice", elems, isNil, <<>>)
StructField(tag, sub) == Field(tag, "struct", <<>>, FALSE, sub)

\* core.ListOptions{Limit, Page}, both `url:"...,omitempty"`
ListOptions(limit, page) ==
    <<IntField(<<"limit", "omitempty">>, limit), IntField(<<"page", "omitempty">>, page)>>

\* the fields the option structs of the model are made of
OptionFields ==
    {IntField(<<"limit", "omitempty">>, n) : n \in {"0", "25"}}
      \cup {StringField(<<"status">>, s) : s \in {"", "open"}}
      \cup {StringField(<<"-">>, "secret"), StringField(<<>>, "untagged")}
      \cup {SliceField(<<"tags", "omitempty">>, <<>>, TRUE)}
      \cup {SliceField(<<"tags", "omitempty">>, e, FALSE) :
               e \in {<<>>, <<"new">>, <<"new", "sale">>}}
      \cup {StructField(<<>>, ListOptions(l, p)) : l \in {"0", "10"}, p \in {"0", "2"}}

MaxFields == 2

\* the opts argument: a nil interface, a nil pointer, a value that is no
\* struct, or a (pointer to a) struct of up to MaxFields fields
OptionValues ==
    {[kind |-> k, fields |-> <<>>] : k \in {"nil", "nilptr", "nonstruct"}}
      \cup {[kind |-> "struct", fields |-> f] :
               f \in UNION {[1..n -> OptionFields] : n \in 0..MaxFields}}

\* reflect.Value.IsZero: 0, "", a nil slice (an empty one is not zero), a
\* struct of zero fields
RECURSIVE IsZero(_)
IsZero(f) ==
    CASE f.kind = "int" -> f.v = <<"0">>
      [] f.kind = "string" -> f.v = <<"">>
      [] f.kind = "slice" -> f.isNil
      [] f.kind = "struct" -> \A i \in 1..Len(f.sub) : IsZero(f.sub[i])

\* the elements of s with sep between them
RECURSIVE Join(_, _)
Join(s, sep) ==
    IF Len(s) = 0 THEN <<>>
    ELSE IF Len(s) = 1 THEN <<s[1]>>
    ELSE <<s[1], sep>> \o Join(Tail(s), sep)

\* fmt.Sprintf("%v", field.Interface()), as a sequence of pieces of text: a
\* scalar prints as itself, a slice as [a b], a struct as {a b}
RECURSIVE Sprint(_)
Sprint(f) ==
    CASE f.kind \in {"int", "string"} -> f.v
      [] f.kind = "slice" -> <<"[">> \o Join(f.v, " ") \o <<"]">>
      [] f.kind = "struct" ->
           <<"{">> \o Join([i \in 1..Len(f.sub) |-> Sprint(f.sub[i])[1]], " ") \o <<"}">>

\* url.QueryEscape on the pieces of a value
QueryEscape(text) ==
    [i \in 1..Len(text) |->
       CASE text[i] = "[" -> "%5B"
         [] text[i] = "]" -> "%5D"
         [] text[i] = "{" -> "%7B"
         [] text[i] = "}" -> "%7D"
         [] text[i] = " " -> "+"
         [] OTHER -> text[i]]

\* the parameter names, in the order url.Values.Encode sorts them
ParamNames == <<"limit", "page", "status", "tags">>

NoParams == [n \in {ParamNames[i] : i \in 1..Len(ParamNames)} |-> <<>>]

\* url.Values.Encode: name=value for every value of every key, keys sorted
RECURSIVE EncodeFrom(_, _)
EncodeFrom(params, i) ==
    IF i > Len(ParamNames) THEN <<>>
    ELSE [k \in 1..Len(params[ParamNames[i]]) |->
             <<ParamNames[i], "=", QueryEscape(params[ParamNames[i]][k])>>]
           \o EncodeFrom(params, i + 1)

Encode(params) == EncodeFrom(params, 1)

\* the loop of lines 308-327 from field i on
RECURSIVE SetFields(_, _, _)
SetFields(fields, i, params) ==
    IF i > Len(fields) THEN params
    ELSE LET f == fields[i]
             omitempty == Len(f.tag) > 1 /\ f.tag[2] = "omitempty" IN
         IF f.tag = <<>> \/ f.tag = <<"-">> THEN SetFields(fields, i + 1, params)
         ELSE IF omitempty /\ IsZero(f) THEN SetFields(fields, i + 1, params)
         ELSE SetFields(fields, i + 1, [params EXCEPT ![f.tag[1]] = <<Sprint(f)>>])

\* buildQueryString lines 289-330: the query string, as the sequence of its
\* name=value parameters (<<>> is the empty string)
buildQueryString(opts) ==
    IF opts.kind \in {"nil", "nilptr", "nonstruct"} THEN <<>>
    ELSE Encode(SetFields(opts.fields, 1, NoParams))

BuildQueryStringCall ==
    /\ fn.name = "buildQueryString"
    /\ ~fn.called
    /\ fn' = [fn EXCEPT !.called = TRUE, !.q = buildQueryString(fn.opts)]
    /\ UNCHANGED <<tmVars, cbVars, maxRetries, hasCb, do, now>>

BuildQueryStringInputs ==
    {[name |-> "buildQueryString", opts |-> o, called |-> FALSE, q |-> <<>>] :
        o \in OptionValues}

\* One call of NewRequest or of buildQueryString with any of the arguments
\* above.
InitRequest ==
    /\ fn \in NewRequestInputs \cup BuildQueryStringInputs
    /\ now = 0
    /\ NoTokenManager
    /\ NoBreaker
    /\ NoDo

NextRequest ==
    \/ NewRequestCall
    \/ BuildQueryStringCall

SpecRequest == InitRequest /\ [][NextRequest]_vars

\* ------------------------------------------ NewRequest, buildQueryString: claims
NewRequestCalled == fn.name = "NewRequest" /\ fn.called

\* the arguments with which NewRequest gets as far as the Authorization header
RequestBuilds == fn.pathOk /\ fn.methodOk /\ fn.body # "unmarshalable"

\* C25: NewRequest takes the bearer token from the token manager when there is
\* one and from the static token otherwise, sets no Authorization header for an
\* empty token, and when GetToken fails returns that error and no request,
\* without falling back on the static token.
C25_BearerTokenSource ==
    NewRequestCalled =>
        LET chosen == IF fn.hasTokenManager THEN fn.getToken.tok ELSE fn.static IN
        /\ (RequestBuilds /\ (fn.hasTokenManager => fn.getToken.err = NilErr))
              => /\ fn.out.err = NilErr
                 /\ fn.out.req.built
                 /\ fn.out.req.authorization =
                      IF chosen = NoAccess THEN <<>> ELSE Bearer(chosen)
        /\ (RequestBuilds /\ fn.hasTokenManager /\ fn.getToken.err # NilErr)
              => /\ fn.out.err = <<"failed to get access token", fn.getToken.err>>
                 /\ fn.out.req = NoRequest
        /\ fn.out.err # NilErr => fn.out.req = NoRequest

\* GetToken failed on a client that also has a static token: no request
C25_Witness ==
    /\ NewRequestCalled /\ RequestBuilds
    /\ fn.hasTokenManager /\ fn.getToken.err # NilErr /\ fn.static # NoAccess
    /\ fn.out.req = NoRequest /\ fn.out.err[1] = "failed to get access token"

BuildQueryStringCalled == fn.name = "buildQueryString" /\ fn.called

\* the fields with those of embedded structs put in their place
RECURSIVE Flatten(_)
Flatten(fields) ==
    IF Len(fields) = 0 THEN <<>>
    ELSE IF fields[1].kind = "struct" /\ fields[1].tag = <<>>
    THEN Flatten(fields[1].sub) \o Flatten(Tail(fields))
    ELSE <<fields[1]>> \o Flatten(Tail(fields))

\* the parameters the claim describes: no parameter for a zero value or an
\* empty slice under omitempty, one value per element of a slice
RECURSIVE ClaimedFields(_, _, _)
ClaimedFields(fields, i, params) ==
    IF i > Len(fields) THEN params
    ELSE LET f == fields[i]
             omitempty == Len(f.tag) > 1 /\ f.tag[2] = "omitempty"
             zero == IsZero(f) \/ (f.kind = "slice" /\ f.v = <<>>)
             values == IF f.kind = "slice" THEN [k \in 1..Len(f.v) |-> <<f.v[k]>>]
                       ELSE <<Sprint(f)>> IN
         IF f.tag = <<>> \/ f.tag = <<"-">> THEN ClaimedFields(fields, i + 1, params)
         ELSE IF omitempty /\ zero THEN ClaimedFields(fields, i + 1, params)
         ELSE ClaimedFields(fields, i + 1, [params EXCEPT ![f.tag[1]] = values])

ClaimedQuery(opts) ==
    IF opts.kind \in {"nil", "nilptr", "nonstruct"} THEN <<>>
    ELSE Encode(ClaimedFields(Flatten(opts.fields), 1, NoParams))

\* C26 as claimed: buildQueryString gives the empty string for nil, leaves out
\* omitempty fields that are zero or an empty slice, flattens the fields of
\* embedded structs into the list and gives one name=value parameter for every
\* element of a slice.
C26_AsClaimed ==
    BuildQueryStringCalled => fn.q = ClaimedQuery(fn.opts)

\* ---------------------------------------------------------- FileTokenStore
\* keys as sequences of characters; the first two differ only in a character
\* that filePath replaces
StoreKeys == {<<"a", ":", "b">>, <<"a", "_", "b">>, <<"c">>}

\* filePath lines 139-143: ":", "/" and "\" become "_", under dir, with .json
filePath(key) ==
    <<"dir/">> \o [i \in 1..Len(key) |->
                     IF key[i] \in {":", "/", "\\"} THEN "_" ELSE key[i]]
               \o <<".json">>

FilePaths == {filePath(k) : k \in StoreKeys}

\* the tokens written to the store
FileTokens == {ManagedToken(<<"stored", n>>, TenHours) : n \in 1..2}

\* json.MarshalIndent of a token and json.Unmarshal of a file's bytes
MarshalToken(t) == <<"{", "access_token", t.at, "expire_at", t.exp, "}">>
UnmarshalToken(data) == ManagedToken(data[3], data[5])

NoFile == <<>>

MaxStoreOps == 3

NoStoreCall == [op |-> "none", key |-> <<>>, missing |-> FALSE, fault |-> FALSE,
                tok |-> NoToken, err |-> NilErr]

\* NewFileTokenStore over an empty directory. stored: the keys Set and not
\* deleted since; last: the last call, whether its key was missing when it
\* was made, whether the file system failed it, and what it returned
NewFileTokenStore ==
    [name |-> "FileTokenStore", files |-> [p \in FilePaths |-> NoFile],
     stored |-> {}, ops |-> 0, last |-> NoStoreCall]

StoreCall(op, key, fault, tok, err) ==
    [op |-> op, key |-> key, missing |-> key \notin fn.stored, fault |-> fault,
     tok |-> tok, err |-> err]

\* Get lines 74-94: read the key's file; a file that does not exist is (nil,
\* nil), another read failure is an error
FileStoreGet(key) ==
    /\ fn.name = "FileTokenStore"
    /\ fn.ops < MaxStoreOps
    /\ \E fault \in BOOLEAN :
         LET data == fn.files[filePath(key)] IN
         fn' = [fn EXCEPT !.ops = @ + 1,
                  !.last = IF fault
                           THEN StoreCall("Get", key, TRUE, NoToken,
                                          <<"failed to read token file", 0>>)
                           ELSE IF data = NoFile
                           THEN StoreCall("Get", key, FALSE, NoToken, NilErr)
                           ELSE StoreCall("Get", key, FALSE, UnmarshalToken(data), NilErr)]
    /\ UNCHANGED <<tmVars, cbVars, maxRetries, hasCb, do, now>>

\* Set lines 97-123: write the token to a temporary file and rename it to the
\* key's file; a failure leaves the key's file as it was
FileStoreSet(key, t) ==
    /\ fn.name = "FileTokenStore"
    /\ fn.ops < MaxStoreOps
    /\ \E fault \in BOOLEAN :
         fn' = IF fault
               THEN [fn EXCEPT !.ops = @ + 1,
                       !.last = StoreCall("Set", key, TRUE, NoToken,
                                          <<"failed to write token file", 0>>)]
               ELSE [fn EXCEPT !.ops = @ + 1,
                       !.files[filePath(key)] = MarshalToken(t),
                       !.stored = @ \cup {key},
                       !.last = StoreCall("Set", key, FALSE, NoToken, NilErr)]
    /\ UNCHANGED <<tmVars, cbVars, maxRetries, hasCb, do, now>>

\* Delete lines 126-136: remove the key's file; that there is none is no error
FileStoreDelete(key) ==
    /\ fn.name = "FileTokenStore"
    /\ fn.ops < MaxStoreOps
    /\ \E fault \in BOOLEAN :
         fn' = IF fault /\ fn.files[filePath(key)] # NoFile
               THEN [fn EXCEPT !.ops = @ + 1,
                       !.last = StoreCall("Delete", key, TRUE, NoToken,
                                          <<"failed to delete token file", 0>>)]
               ELSE [fn EXCEPT !.ops = @ + 1,
                       !.files[filePath(key)] = NoFile,
                       !.stored = @ \ {key},
                       !.last = StoreCall("Delete", key, FALSE, NoToken, NilErr)]
    /\ UNCHANGED <<tmVars, cbVars, maxRetries, hasCb, do, now>>

\* Calls of Get, Set and Delete on one FileTokenStore, one after the other
\* (s.mu serialises them).
InitStore ==
    /\ fn = NewFileTokenStore
    /\ now = 0
    /\ NoTokenManager
    /\ NoBreaker
    /\ NoDo

NextStore ==
    \/ \E key \in StoreKeys : FileStoreGet(key)
    \/ \E key \in StoreKeys, t \in FileTokens : FileStoreSet(key, t)
    \/ \E key \in StoreKeys : FileStoreDelete(key)

SpecStore == InitStore /\ [][NextStore]_vars

\* ------------------------------------------------- FileTokenStore: claims
\* C27 as claimed: unless the file system fails the call, Get of a missing key
\* (one never Set, or deleted since) returns nil and no error, and Delete of a
\* missing key returns no error.
C27_AsClaimed ==
    (fn.name = "FileTokenStore" /\ fn.last.missing /\ ~fn.last.fault)
        => /\ fn.last.op = "Get" => (fn.last.tok = NoToken /\ fn.last.err = NilErr)
           /\ fn.last.op = "Delete" => fn.last.err = NilErr

\* ------------------------------------------ token manager: woken waiters
Usable == token # NoToken /\ ~IsExpiring(token, refreshBuffer)

\* the select of g proceeds, or g is resumed, with the channel's case
WokenByChannel(g) ==
    \/ GetTokenSelect(g) /\ ReadyCases(g) = {"ch"}
    \/ GetTokenWake(g) /\ gr[g].wake = "ch"

\* C28: a waiter woken by the channel of a finished refresh calls GetToken
\* again; under the lock it returns the cached token if that is present and
\* outside the buffer, and otherwise waits for the refresh in flight or starts
\* one. No call returns success without having refreshed unless the cached
\* token is present and outside the buffer, and then it returns that token.
C28_WokenWaiterRevalidates ==
    [][\A g \in Callers :
         /\ WokenByChannel(g) => gr'[g].pc = "enter" /\ gr'[g].woken
         /\ (gr[g].woken /\ GetTokenLock(g))
               => IF Usable
                  THEN gr'[g].pc = "done" /\ gr'[g].reterr = NilErr
                       /\ gr'[g].tok = token.at
                  ELSE IF refreshCh # 0
                  THEN gr'[g].pc = "select" /\ gr'[g].ch = refreshCh
                  ELSE gr'[g].pc = "doRefresh" /\ refreshCh' # 0
         /\ (gr[g].pc \notin {"done", "close"} /\ gr'[g].pc = "done"
             /\ gr'[g].reterr = NilErr)
               => Usable /\ gr'[g].tok = token.at]_vars

\* a waiter woken after a failed refresh has started a refresh of its own
C28_Witness ==
    \E g \in Callers :
        /\ gr[g].woken /\ gr[g].pc = "doRefresh" /\ token = NoToken
        /\ \E h \in Callers \ {g} : gr[h].pc = "done" /\ gr[h].reterr # NilErr

\* --------------------------------------- token manager: a failed refresh
\* C29: when the refresh call of a refresher has failed, the refresher leaves
\* the cached token as it is and clears tm.refreshCh, closes the channel and
\* returns no token and the refresh error with its cause; with the marker
\* cleared, the next call that finds no usable token starts a new refresh.
C29_FailedRefreshLeavesCache ==
    [][\A g \in Callers :
         /\ (gr[g].err # NilErr /\ GetTokenCommit(g))
               => token' = token /\ refreshCh' = 0
         /\ (gr[g].err # NilErr /\ GetTokenClose(g))
               => /\ gr'[g].pc = "done" /\ gr'[g].tok = NoAccess
                  /\ gr'[g].reterr = gr[g].err
                  /\ gr'[g].reterr[1] = "token refresh failed"
                  /\ chans'[gr[g].ch] > 0
         /\ (refreshCh = 0 /\ ~Usable /\ gr'[g].pc # "load"
                 /\ (GetTokenLock(g) \/ GetTokenRelock(g)))
               => gr'[g].pc = "doRefresh" /\ refreshCh' # 0]_vars

\* after the failed refresh of one call, which left the cache with a token that
\* is expiring, another call has started a refresh on a new channel
C29_Witness ==
    \E g \in Callers : \E h \in Callers \ {g} :
        /\ gr[g].pc = "done" /\ gr[g].refreshed /\ gr[g].reterr[1] = "token refresh failed"
        /\ gr[h].pc = "doRefresh" /\ refreshCh = 2
        /\ token # NoToken

\* ------------------------------------------ circuit breaker: transitions
\* C30 as claimed: every step that changes the breaker's state is closed to
\* open by a RecordFailure that reaches the threshold, open to half-open by an
\* Allow after the cooldown, half-open to closed by a RecordSuccess, or
\* half-open to open by a RecordFailure.
C30_AsClaimed ==
    [][state' # state =>
         \/ /\ state = "closed" /\ state' = "open"
            /\ \E c \in Callers : RecordFailure(c)
            /\ failures' >= threshold
         \/ /\ state = "open" /\ state' = "half-open"
            /\ \E c \in Callers : Allow(c)
            /\ Since(lastFailTime) >= cooldown
         \/ /\ state = "half-open" /\ state' = "closed"
            /\ \E c \in Callers : RecordSuccess(c)
         \/ /\ state = "half-open" /\ state' = "open"
            /\ \E c \in Callers : RecordFailure(c)]_vars

\* ------------------------------------- circuit breaker: failures while open
\* C31: RecordFailure sets lastFailTime to the time of the call in every
\* state and leaves an open breaker open; and an Allow called while the
\* breaker is open is rejected as long as less than the cooldown has elapsed
\* since lastFailTime, however long ago the breaker opened.
C31_FailureWhileOpenRestartsCooldown ==
    [][\A c \in Callers :
         /\ RecordFailure(c) => lastFailTime' = now
         /\ (state = "open" /\ RecordFailure(c)) => state' = "open"
         /\ (state = "open" /\ Since(lastFailTime) < cooldown /\ Allow(c))
               => cb'[c].res = "rejected" /\ cb'[c].pc = "idle" /\ state' = "open"]_vars

\* the cooldown has elapsed since the breaker opened but not since the failure
\* recorded while it was open, and an Allow was rejected
C31_Witness ==
    /\ state = "open"
    /\ openedAt # ZeroTime
    /\ Since(openedAt) >= cooldown
    /\ lastFailTime > openedAt
    /\ Since(lastFailTime) < cooldown
    /\ \E c \in Callers : cb[c].res = "rejected"

\* ----------------------------------------------------- Do: the retry wait
\* the header is a number of seconds above zero, or a date after now
PositiveRetryAfter(h) ==
    \/ h.kind = "text" /\ ParseFloat(h.text).ok /\ ParseFloat(h.text).ms > 0
    \/ h.kind = "date" /\ h.t > now

Sleeping(d) == d.pc \in {"select", "parked"}

\* C32: when an attempt of Do has ended in a 429 or a 503 and attempts remain,
\* Do sleeps: for the value of Retry-After if that is a positive duration, and
\* otherwise (no header, zero, negative, no number) for
\* backoffDuration(attempt, 2s), which is within 25% of min(2s * 2^attempt,
\* 30s); and the next attempt begins only once the timer of that sleep fired.
C32_RetryWait ==
    [][\A c \in Callers :
         /\ (do[c].pc = "notify" /\ ~do[c].transportErr /\ Retryable(do[c].status)
                 /\ do[c].attempt < maxRetries /\ DoNotify(c))
               => /\ do'[c].pc = "select"
                  /\ IF PositiveRetryAfter(do[c].header)
                     THEN /\ do'[c].delay.src = "Retry-After"
                          /\ do'[c].delay.d = ParseFloat(do[c].header.text).ms
                     ELSE /\ do'[c].delay = BackoffDelay(do[c].attempt, 2 * Second)
                          /\ \A o \in backoffDuration(do[c].attempt, 2 * Second) :
                               /\ ~o.panic
                               /\ WithinQuarter(o.d, Expected(do[c].attempt, 2 * Second))
         /\ (Sleeping(do[c]) /\ ~Sleeping(do'[c]) /\ do'[c].pc # "done")
               => /\ do[c].fired
                  /\ do'[c].pc = "allow"
                  /\ do'[c].attempt = do[c].attempt + 1]_vars

\* Do sleeps the two seconds of the Retry-After header of a 429
C32_Witness ==
    \E c \in Callers :
        /\ Sleeping(do[c])
        /\ do[c].status = 429
        /\ do[c].header = TextHeader(<<"2">>)
        /\ do[c].delay = RetryAfterDelay(2 * Second)

\* ------------------------------------------ circuit breaker: the probe mark
\* C33: in every state probing is set exactly when the breaker is half-open;
\* and an Allow called on a half-open breaker is rejected and changes nothing
\* of the breaker.
C33_ProbingIffHalfOpen ==
    /\ [](probing <=> state = "half-open")
    /\ [][\A c \in Callers :
            (state = "half-open" /\ Allow(c))
               => /\ cb'[c].res = "rejected" /\ cb'[c].pc = "idle"
                  /\ UNCHANGED <<state, probing, failures, lastFailTime>>]_vars

\* with no cooldown an open breaker rejects nothing: the caller was rejected
\* by the half-open breaker whose probe is still in flight
C33_Witness ==
    /\ state = "half-open"
    /\ probing
    /\ cooldown = 0
    /\ \E c \in Callers : cb[c].res = "rejected"
    /\ \E c \in Callers : cb[c].pc = "inflight" /\ cb[c].probe

\* ---------------------------------------- circuit breaker: failure counter
\* C34: in every state the failure counter is between 0 and the threshold, and
\* a closed breaker has counted fewer failures than the threshold.
C34_FailuresBounded ==
    /\ failures >= 0
    /\ failures <= threshold
    /\ state = "closed" => failures < threshold

\* an open breaker with the counter at the threshold after a further failure
\* was recorded while it was open
C34_Witness ==
    /\ state = "open"
    /\ failures = threshold
    /\ openedAt # ZeroTime
    /\ lastFailTime > openedAt

C36_AsClaimed ==
    [][\A g \in Callers :
         (/\ LoadFromStoreInstall(g)
          /\ token # NoToken
          /\ admin.pc = "idle"
          /\ NoOtherCallInFlight(g)) => token' = token]_vars

\* ------------------------------------------------- GetToken: every call returns
\* the steps of a GetToken call that is under way: all but the call itself and
\* the end of the caller's context, which are the caller's to make or not
GetTokenRun(g) ==
    \/ GetTokenLock(g)
    \/ LoadFromStoreGet(g)
    \/ LoadFromStoreInstall(g)
    \/ GetTokenRelock(g)
    \/ GetTokenSelect(g)
    \/ GetTokenWake(g)
    \/ DoRefreshCall(g)
    \/ DoRefreshPersist(g)
    \/ GetTokenCommit(g)
    \/ GetTokenClose(g)

\* The token manager with its goroutines scheduled fairly: a goroutine that can
\* take a step takes it in the end (the mutex is granted, the refresh callback
\* and the store calls return, a goroutine woken by close(ch) runs again).
\* Nothing is assumed of the callers' contexts or of the clock.
SpecLive == Init /\ [][Next]_vars /\ \A g \in Callers : WF_vars(GetTokenRun(g))

\* a call that has returned: with an access token and no error, or with an
\* error and no token
GetTokenReturned(g) ==
    /\ gr[g].pc = "done"
    /\ (gr[g].reterr = NilErr) <=> (gr[g].tok # NoAccess)

\* C37: every GetToken call returns, with a token or with an error, whether
\* the refreshes succeed or fail and whatever the other goroutine does
C37_EveryCallReturns ==
    \A g \in Callers : (gr[g].pc # "idle") ~> GetTokenReturned(g)

\* both refreshes of a run failed and a goroutine that waited for the first
\* was woken, made the second and returned its error; no context ended
C37_Witness ==
    \E g \in Callers : \E h \in Callers \ {g} :
        /\ GetTokenReturned(g) /\ GetTokenReturned(h)
        /\ gr[g].woken /\ gr[g].refreshed /\ gr[g].reterr # NilErr
        /\ gr[h].refreshed /\ gr[h].reterr # NilErr
        /\ ~gr[g].ctxDone /\ ~gr[h].ctxDone

\* ------------------------------------------- FileTokenStore: keys apart
\* what Get(key) returns from the files as they are, the file system working
FileStoreHolds(key) ==
    LET data == fn.files[filePath(key)] IN
    IF data = NoFile THEN NoToken ELSE UnmarshalToken(data)

\* C38 as claimed: a Set or a Delete on one key leaves what Get returns for
\* every other key as it was.
C38_AsClaimed ==
    [][\A key \in StoreKeys :
         ((\E t \in FileTokens : FileStoreSet(key, t)) \/ FileStoreDelete(key))
            => \A other \in StoreKeys \ {key} :
                  FileStoreHolds(other)' = FileStoreHolds(other)]_vars

\* --------------------------------------- SetInitialToken: a failed store.Set
\* the last call of the admin goroutine was SetInitialToken and returned the
\* error of store.Set
SeedNotPersisted == AdminIdle /\ admin.tok # NoToken /\ admin.err

\* C39: a SetInitialToken whose store.Set fails returns the error and leaves
\* the cached token, the initialized mark and the store as they are; and when
\* it has returned so, the token it set is the cached token and lies outside
\* the refresh buffer, and no other GetToken call is in flight, a GetToken call
\* that takes the lock returns that token in that step: no load from the
\* store, no refresh call.
C39_FailedPersistKeepsSeed ==
    [][/\ (SetInitialTokenPersist /\ admin'.err)
            => /\ token' = token
               /\ initialized /\ initialized'
               /\ store' = store
               /\ admin'.pc = "idle"
       /\ \A g \in Callers :
            (/\ SeedNotPersisted
             /\ token = admin.tok
             /\ ~IsExpiring(token, refreshBuffer)
             /\ NoOtherCallInFlight(g)
             /\ GetTokenLock(g))
               => /\ gr'[g].pc = "done"
                  /\ gr'[g].tok = admin.tok.at
                  /\ gr'[g].reterr = NilErr
                  /\ gr'[g].didLoad = gr[g].didLoad
                  /\ refreshCount' = refreshCount]_vars

\* SetInitialToken failed to persist the seed on a manager whose store holds
\* another token, and the first GetToken ever returned the seed without a load
\* and without a refresh
C39_Witness ==
    /\ SeedNotPersisted
    /\ hasStore
    /\ store # NoToken /\ store # admin.tok
    /\ token = admin.tok
    /\ refreshCount = 0
    /\ \E g \in Callers :
         /\ gr[g].pc = "done"
         /\ gr[g].tok = admin.tok.at
         /\ gr[g].reterr = NilErr
    /\ \A g \in Callers : gr[g].pc \in {"idle", "done"} /\ ~gr[g].didLoad

=============================================================================
